---- MODULE Spec2Model ----
(***************************************************************************)
(* The workout-plan import pipeline of the AllWorkouts backend:            *)
(*   POST /workout-plans/parse          parse_workout_plan (StartImport)   *)
(*   its background task                process_parsing    (the worker)    *)
(*   GET  /workout-plans/parse/status   get_parse_status   (GetStatus)     *)
(*   POST /workout-plans/from-parsed    create_workout_plan_from_parsed    *)
(*                                      (ConsumeResult)                    *)
(* The committed rows of the workout_import_log and workout_plan tables    *)
(* are the shared state.  Every database session commits atomically, so a  *)
(* step of the model is the code between two commits (or between the read  *)
(* and the commit of one request).                                         *)
(*                                                                         *)
(* Encodings: an Optional value is a sequence of length 0 (None) or 1; a   *)
(* message is the sequence of the pieces it is concatenated from; a        *)
(* confidence is kept in hundredths (0.70 is 70); a text is kept as the    *)
(* lengths of its leading whitespace, its body and its trailing            *)
(* whitespace; a JSON object is a record that has exactly the keys the     *)
(* object has.                                                             *)
(***************************************************************************)
EXTENDS Integers, Sequences, FiniteSets, TLC

VARIABLES
    logs,      \* committed workout_import_log rows: id -> row
    plans,     \* committed workout_plan rows (a set of records)
    pc,        \* position of the background task of each job: job id -> label
    loc,       \* locals of the background task of each job
    replied,   \* what the LLM service answered to each job, None before
    reqs,      \* the from-parsed requests so far, with position and response
    started,   \* the response of the latest POST /parse
    polled,    \* the response of the latest GET /parse/status
    settings,  \* app.config.settings: the three matching thresholds
    matching,  \* a call of ExerciseMatcher.match_exercise and what it returned
    sessions,  \* committed workout_session rows: id -> row
    exercise_sessions,  \* committed exercise_session rows, in insertion order
    personal_records,   \* committed personal_record rows: (user, exercise) -> row
    sreqs,     \* the workout session requests so far, with position and response
    preqs      \* the workout plan requests so far, with position and response

vars ==
    <<logs, plans, pc, loc, replied, reqs, started, polled, settings, matching,
      sessions, exercise_sessions, personal_records, sreqs, preqs>>

\* the tables and requests of the workout session endpoints
svars == <<sessions, exercise_sessions, personal_records, sreqs>>

\* the process configuration, the matcher and the state of the other
\* endpoints, which the import endpoints leave alone
mvars == <<settings, matching, svars, preqs>>

\* the import log, the background tasks and the requests of the import endpoints
ivars == <<logs, pc, loc, replied, reqs, started, polled>>

-----------------------------------------------------------------------------
(* Bounds of the model *)

MaxJobs == 2

MaxReqs == 2

MaxWorkouts == 2

MaxExercises == 1

MaxCatalog == 3

MaxTopN == 3

MaxNameLen == 3

MaxTypoCatalog == 2

MaxCalls == 2

MaxSessionReqs == 3

MaxPlans == 2

MaxPlanReqs == 2

-----------------------------------------------------------------------------
(* Values *)

None == <<>>

Some(v) == <<v>>

Users == {"u1", "u2"}

\* The exercise table: e1 is a global exercise, e2 a custom exercise of u1.
ExerciseTable ==
    { [id |-> "e1", name |-> "Squat", is_custom |-> FALSE, user_id |-> None],
      [id |-> "e2", name |-> "Bench Press", is_custom |-> TRUE,
       user_id |-> Some("u1")] }

\* dict.get(key, default)
Get(d, k, dflt) == IF k \in DOMAIN d THEN d[k] ELSE dflt

-----------------------------------------------------------------------------
(* WorkoutPlanParseRequest.validate_text *)

MinTextLen == 10

MaxTextLen == 50000

TextLen(t) == t.lead + t.body + t.trail

\* str.strip(): the leading and trailing whitespace goes, the body stays
Strip(t) == [lead |-> 0, body |-> t.body, trail |-> 0]

\* validate_text as it would be with the lower limit tested on the raw text
validate_text_untrimmed(v) ==
    IF TextLen(v) < MinTextLen
    THEN [ok |-> FALSE, err |-> "Text must be at least 10 characters"]
    ELSE IF TextLen(v) > MaxTextLen
    THEN [ok |-> FALSE, err |-> "Text must be less than 50,000 characters"]
    ELSE [ok |-> TRUE, val |-> Strip(v)]

validate_text(v) ==
    IF TextLen(Strip(v)) < MinTextLen
    THEN [ok |-> FALSE, err |-> "Text must be at least 10 characters"]
    ELSE IF TextLen(v) > MaxTextLen
    THEN [ok |-> FALSE, err |-> "Text must be less than 50,000 characters"]
    ELSE [ok |-> TRUE, val |-> Strip(v)]

-----------------------------------------------------------------------------
(* SetConfig and its validators *)

MinSetNumber == 1

MaxSetNumber == 50

MinReps == 1

MaxReps == 200

SetConfig(set_number, reps_min, reps_max) ==
    IF set_number < MinSetNumber \/ set_number > MaxSetNumber
    THEN [ok |-> FALSE, err |-> "Set number must be between 1 and 50"]
    ELSE IF reps_min < MinReps \/ reps_min > MaxReps
            \/ reps_max < MinReps \/ reps_max > MaxReps
    THEN [ok |-> FALSE, err |-> "Reps must be between 1 and 200"]
    ELSE [ok |-> TRUE,
          val |-> [set_number |-> set_number, reps_min |-> reps_min,
                   reps_max |-> reps_max]]

-----------------------------------------------------------------------------
(* ParserService._build_exercise_from_llm *)

LowThreshold == 70

MediumThreshold == 80

HighThreshold == 90

DefaultRepsMin == 8

DefaultRepsMax == 12

DefaultSetCount == 3

\* api/workout_sessions.py line 677: the divisor of the Epley formula
EpleyDivisor == 30

DefaultSets ==
    [i \in 1..DefaultSetCount |->
        [reps_min |-> DefaultRepsMin, reps_max |-> DefaultRepsMax]]

EmptyStats == [high |-> 0, medium |-> 0, low |-> 0, unmatched |-> 0]

\* A JSON number n, and a JSON value that is no number (null, a string)
Num(n) == [num |-> TRUE, v |-> n]

NotNum == [num |-> FALSE]

\* lines 138-168 as they would be with the floor itself excluded
MatchOfAboveFloor(ex_data, exercise_map, stats) ==
    LET original_text == Get(ex_data, "original_text", Some(""))
        exercise_id   == Get(ex_data, "exercise_id", None)
        confidence    == Get(ex_data, "confidence", Num(0))
        known == /\ exercise_id # None
                 /\ exercise_id # Some("")
                 /\ exercise_id[1] \in DOMAIN exercise_map
    IN  IF known /\ ~confidence.num
        THEN [ok |-> FALSE, err |-> "'>=' not supported between instances"]
        ELSE IF known /\ confidence.v > LowThreshold
        THEN LET level == IF confidence.v >= HighThreshold THEN "high"
                          ELSE IF confidence.v >= MediumThreshold THEN "medium"
                          ELSE "low"
                 exercise == exercise_map[exercise_id[1]]
             IN  IF original_text = None
                 THEN [ok |-> FALSE,
                       err |-> "validation error for ParsedExerciseMatch"]
                 ELSE [ok |-> TRUE,
                       stats |-> [stats EXCEPT ![level] = @ + 1],
                       matched_exercise |->
                           Some([exercise_id |-> exercise.id,
                                 exercise_name |-> exercise.name,
                                 original_text |-> original_text[1],
                                 confidence |-> confidence.v,
                                 confidence_level |-> level])]
        ELSE [ok |-> TRUE,
              stats |-> [stats EXCEPT !.unmatched = @ + 1],
              matched_exercise |-> None]

\* lines 138-168: the match and the one counter it increments.  An
\* exercise_id that is absent, null or empty is falsy; `confidence >= 0.70`
\* raises TypeError when the confidence is no number.
MatchOf(ex_data, exercise_map, stats) ==
    LET original_text == Get(ex_data, "original_text", Some(""))
        exercise_id   == Get(ex_data, "exercise_id", None)
        confidence    == Get(ex_data, "confidence", Num(0))
        known == /\ exercise_id # None
                 /\ exercise_id # Some("")
                 /\ exercise_id[1] \in DOMAIN exercise_map
    IN  IF known /\ ~confidence.num
        THEN [ok |-> FALSE, err |-> "'>=' not supported between instances"]
        ELSE IF known /\ confidence.v >= LowThreshold
        THEN LET level == IF confidence.v >= HighThreshold THEN "high"
                          ELSE IF confidence.v >= MediumThreshold THEN "medium"
                          ELSE "low"
                 exercise == exercise_map[exercise_id[1]]
             IN  IF original_text = None
                 THEN [ok |-> FALSE,
                       err |-> "validation error for ParsedExerciseMatch"]
                 ELSE [ok |-> TRUE,
                       stats |-> [stats EXCEPT ![level] = @ + 1],
                       matched_exercise |->
                           Some([exercise_id |-> exercise.id,
                                 exercise_name |-> exercise.name,
                                 original_text |-> original_text[1],
                                 confidence |-> confidence.v,
                                 confidence_level |-> level])]
        ELSE [ok |-> TRUE,
              stats |-> [stats EXCEPT !.unmatched = @ + 1],
              matched_exercise |-> None]

\* a result in front of the results that follow it, or the first exception
Cons(one, rest) ==
    IF ~rest.ok THEN rest
    ELSE [rest EXCEPT !.val = <<one.val>> \o rest.val]

\* lines 170-184: one SetConfig per entry of "sets", numbered from 1
RECURSIVE SetConfigs(_, _)
SetConfigsFrom(sets_data, i, one) ==
    IF ~one.ok THEN one ELSE Cons(one, SetConfigs(sets_data, i + 1))

SetConfigs(sets_data, i) ==
    IF i > Len(sets_data) THEN [ok |-> TRUE, val |-> <<>>]
    ELSE SetConfigsFrom(sets_data, i,
             SetConfig(i, Get(sets_data[i], "reps_min", DefaultRepsMin),
                       Get(sets_data[i], "reps_max", DefaultRepsMax)))

\* lines 186-195: the ParsedExerciseItem of the match m and the sets cfgs
ParsedExerciseItem(ex_data, m, cfgs) ==
    IF ~m.ok THEN m
    ELSE IF ~cfgs.ok THEN cfgs
    ELSE IF Get(ex_data, "original_text", Some("")) = None
    THEN [ok |-> FALSE, err |-> "validation error for ParsedExerciseItem"]
    ELSE [ok |-> TRUE,
          stats |-> m.stats,
          val |-> [matched_exercise |-> m.matched_exercise,
                   original_text |-> Get(ex_data, "original_text", Some(""))[1],
                   set_configurations |-> cfgs.val,
                   rest_seconds |-> Get(ex_data, "rest_seconds", None),
                   notes |-> Get(ex_data, "notes", None),
                   sequence |-> Get(ex_data, "sequence", 0),
                   alternatives |-> <<>>]]

\* The JSON value of "sets": a list of objects, or a number
JList(items) == [list |-> TRUE, items |-> items]

JCount(n) == [list |-> FALSE, v |-> n]

\* `not sets_data`: the empty list and the number 0 are falsy
Falsy(sets_data) ==
    IF sets_data.list THEN sets_data.items = <<>> ELSE sets_data.v = 0

\* lines 171-174 as they would be without the fallback
SetsDataAsGiven(ex_data) == Get(ex_data, "sets", JList(<<>>))

\* line 171-174: an absent or falsy "sets" becomes three sets of 8-12
SetsData(ex_data) ==
    IF Falsy(Get(ex_data, "sets", JList(<<>>))) THEN JList(DefaultSets)
    ELSE ex_data.sets

\* lines 177-184: enumerate(sets_data) raises TypeError on a number
SetConfigurations(sets_data) ==
    IF ~sets_data.list
    THEN [ok |-> FALSE, err |-> "'int' object is not iterable"]
    ELSE SetConfigs(sets_data.items, 1)

build_exercise_from_llm(ex_data, exercise_map, stats) ==
    ParsedExerciseItem(ex_data, MatchOf(ex_data, exercise_map, stats),
                       SetConfigurations(SetsData(ex_data)))

-----------------------------------------------------------------------------
(* ParserService._process_workout and the loop of parse_workout_plan *)

RECURSIVE ProcessExercises(_, _, _, _)
ExercisesFrom(exs, i, exercise_map, one) ==
    IF ~one.ok THEN one
    ELSE Cons(one, ProcessExercises(exs, i + 1, exercise_map, one.stats))

\* the loop of _process_workout, lines 123-125; the counters of the last
\* exercise are the counters of the list
ProcessExercises(exs, i, exercise_map, stats) ==
    IF i > Len(exs) THEN [ok |-> TRUE, stats |-> stats, val |-> <<>>]
    ELSE ExercisesFrom(exs, i, exercise_map,
                       build_exercise_from_llm(exs[i], exercise_map, stats))

\* lines 127-132
ParsedWorkoutItem(workout_data, parsed) ==
    IF ~parsed.ok THEN parsed
    ELSE IF Get(workout_data, "name", Some("Workout")) = None
    THEN [ok |-> FALSE, err |-> "validation error for ParsedWorkoutItem"]
    ELSE [ok |-> TRUE,
          stats |-> parsed.stats,
          val |-> [name |-> Get(workout_data, "name", Some("Workout"))[1],
                   day_number |-> Get(workout_data, "day_number", None),
                   order_index |-> Get(workout_data, "order_index", 0),
                   exercises |-> parsed.val]]

process_workout(workout_data, exercise_map, stats) ==
    ParsedWorkoutItem(workout_data,
        ProcessExercises(Get(workout_data, "exercises", <<>>), 1,
                         exercise_map, stats))

\* parse_workout_plan, lines 62-73: the parsed workouts, the four counters and
\* total_exercises
RECURSIVE ProcessWorkouts(_, _, _, _, _)
\* the loop as it would be with total_exercises counting workouts
WorkoutsFromCountingWorkouts(ws, i, exercise_map, total_exercises, one) ==
    IF ~one.ok THEN one
    ELSE Cons(one, ProcessWorkouts(ws, i + 1, exercise_map, one.stats,
                                   total_exercises + 1))

WorkoutsFrom(ws, i, exercise_map, total_exercises, one) ==
    IF ~one.ok THEN one
    ELSE Cons(one, ProcessWorkouts(ws, i + 1, exercise_map, one.stats,
                                   total_exercises + Len(one.val.exercises)))

ProcessWorkouts(ws, i, exercise_map, stats, total_exercises) ==
    IF i > Len(ws)
    THEN [ok |-> TRUE, stats |-> stats, val |-> <<>>,
          total_exercises |-> total_exercises]
    ELSE WorkoutsFrom(ws, i, exercise_map, total_exercises,
                      process_workout(ws[i], exercise_map, stats))

-----------------------------------------------------------------------------
(* ExerciseMatcher.match_exercise.  The exercises are the rows the query of  *)
(* line 42 returns, in the order it returns them; ratio[name] is what        *)
(* fuzz.token_sort_ratio gives for the text and the name, 0..100.            *)

\* line 28: top_n when the caller gives none
DefaultTopN == 5

\* line 61: the scores of rapidfuzz are out of 100
RatioScale == 100

\* line 49, the keys of {ex.name: ex for ex in exercises}: every name once, in
\* the order of its first exercise
RECURSIVE NameKeys(_, _)
NameKeys(exercises, i) ==
    IF i > Len(exercises) THEN <<>>
    ELSE IF \E k \in 1..(i - 1) : exercises[k].name = exercises[i].name
    THEN NameKeys(exercises, i + 1)
    ELSE <<exercises[i].name>> \o NameKeys(exercises, i + 1)

\* line 49, exercise_names[name]: the last exercise that has the name
NamedExercise(exercises, name) ==
    exercises[CHOOSE i \in 1..Len(exercises) :
                /\ exercises[i].name = name
                /\ \A k \in (i + 1)..Len(exercises) : exercises[k].name # name]

\* the choice process.extract puts next: the highest score among the choices
\* not taken yet, the first of them on equal scores
NextChoice(choices, ratio, taken) ==
    CHOOSE i \in (1..Len(choices)) \ taken :
        \A k \in (1..Len(choices)) \ taken :
            \/ ratio[choices[i]] > ratio[choices[k]]
            \/ ratio[choices[i]] = ratio[choices[k]] /\ i <= k

\* lines 52-54, process.extract(text, choices, scorer, limit): the limit best
\* choices by descending score
RECURSIVE Extract(_, _, _, _)
ExtractFrom(choices, ratio, taken, limit, i) ==
    <<[name |-> choices[i], score |-> ratio[choices[i]]]>>
        \o Extract(choices, ratio, taken \cup {i}, limit - 1)

Extract(choices, ratio, taken, limit) ==
    IF limit <= 0 \/ taken = 1..Len(choices) THEN <<>>
    ELSE ExtractFrom(choices, ratio, taken, limit,
                     NextChoice(choices, ratio, taken))

\* line 63 as it would be with the floor itself excluded
BestExerciseAboveFloor(exercises, best_name, best_score) ==
    IF best_score > settings.exercise_match_low_threshold
    THEN Some(NamedExercise(exercises, best_name))
    ELSE None

\* line 63
BestExercise(exercises, best_name, best_score) ==
    IF best_score >= settings.exercise_match_low_threshold
    THEN Some(NamedExercise(exercises, best_name))
    ELSE None

AtFloor(m) == m.score >= settings.exercise_match_low_threshold

\* lines 66-71: the matches after the best one that clear the floor
Alternatives(exercises, matches) ==
    [i \in 1..Len(SelectSeq(matches, AtFloor)) |->
        [exercise |-> NamedExercise(exercises, SelectSeq(matches, AtFloor)[i].name),
         score |-> SelectSeq(matches, AtFloor)[i].score]]

NoMatch == [best |-> None, score |-> 0, alternatives |-> <<>>]

\* lines 56-75
BestAndAlternatives(exercises, matches, best) ==
    [best |-> best,
     score |-> matches[1].score,
     alternatives |->
         Alternatives(exercises,
                      SubSeq(matches, IF best # None THEN 2 ELSE 1, Len(matches)))]

Matched(exercises, matches) ==
    IF matches = <<>> THEN NoMatch
    ELSE BestAndAlternatives(exercises, matches,
             BestExercise(exercises, matches[1].name, matches[1].score))

\* match_exercise(exercise_text, top_n) on the given rows
MatchResult(exercises, ratio, top_n) ==
    IF exercises = <<>> THEN NoMatch
    ELSE Matched(exercises, Extract(NameKeys(exercises, 1), ratio, {}, top_n))

\* the call: the result is returned to the caller, no table is written
match_exercise ==
    /\ matching.result = None
    /\ matching' = [matching EXCEPT !.result =
                       Some(MatchResult(matching.exercises, matching.ratio,
                                        matching.top_n))]
    /\ UNCHANGED <<ivars, plans, settings, svars, preqs>>

-----------------------------------------------------------------------------
(* fuzz.token_sort_ratio, the scorer of line 53.  A text is the sequence of  *)
(* its characters; a character is a number, 0 being the space.               *)

Space == 0

\* str.split(): the maximal runs of characters that are no whitespace
RECURSIVE Split(_, _, _)
Split(s, i, word) ==
    IF i > Len(s) THEN (IF word = <<>> THEN <<>> ELSE <<word>>)
    ELSE IF s[i] = Space
    THEN (IF word = <<>> THEN <<>> ELSE <<word>>) \o Split(s, i + 1, <<>>)
    ELSE Split(s, i + 1, Append(word, s[i]))

\* a < b for two strings
RECURSIVE Less(_, _)
Less(a, b) ==
    IF b = <<>> THEN FALSE
    ELSE IF a = <<>> THEN TRUE
    ELSE IF a[1] # b[1] THEN a[1] < b[1]
    ELSE Less(Tail(a), Tail(b))

RECURSIVE Insert(_, _)
Insert(w, ws) ==
    IF ws = <<>> THEN <<w>>
    ELSE IF Less(ws[1], w) THEN <<ws[1]>> \o Insert(w, Tail(ws))
    ELSE <<w>> \o ws

\* sorted(tokens)
RECURSIVE Sorted(_)
Sorted(ws) == IF ws = <<>> THEN <<>> ELSE Insert(ws[1], Sorted(Tail(ws)))

\* " ".join(tokens)
RECURSIVE Join(_)
Join(ws) ==
    IF ws = <<>> THEN <<>>
    ELSE IF Len(ws) = 1 THEN ws[1]
    ELSE ws[1] \o <<Space>> \o Join(Tail(ws))

\* the length of the longest common subsequence of two strings
RECURSIVE LCS(_, _)
LCS(a, b) ==
    IF a = <<>> \/ b = <<>> THEN 0
    ELSE IF a[1] = b[1] THEN 1 + LCS(Tail(a), Tail(b))
    ELSE IF LCS(Tail(a), b) >= LCS(a, Tail(b)) THEN LCS(Tail(a), b)
    ELSE LCS(a, Tail(b))

\* fuzz.ratio: the normalized Indel similarity, 100 * 2 * lcs / (len + len),
\* here rounded down to a whole number (the thresholds are whole hundredths,
\* so every comparison with a threshold is the one of the exact score)
Ratio(a, b) ==
    IF Len(a) + Len(b) = 0 THEN RatioScale
    ELSE (RatioScale * 2 * LCS(a, b)) \div (Len(a) + Len(b))

token_sort_ratio(s1, s2) ==
    Ratio(Join(Sorted(Split(s1, 1, <<>>))), Join(Sorted(Split(s2, 1, <<>>))))

\* the score of the text against every name of the table
Scores(exercise_text, exercises) ==
    [name \in {exercises[i].name : i \in 1..Len(exercises)} |->
        token_sort_ratio(exercise_text, name)]

\* a caller calls match_exercise(exercise_text): top_n takes its default
CallMatcher(exercise_text) ==
    /\ matching.result # None
    /\ matching' = [matching EXCEPT
                       !.earlier = Append(@, [exercise_text |-> matching.exercise_text,
                                              result |-> matching.result[1]]),
                       !.exercise_text = exercise_text,
                       !.ratio = Scores(exercise_text, matching.exercises),
                       !.top_n = DefaultTopN,
                       !.result = None]
    /\ UNCHANGED <<ivars, plans, settings, svars, preqs>>

\* get_confidence_level as it would be if a score below the low threshold
\* were given no level
get_confidence_level_above_floor(score) ==
    IF score >= settings.exercise_match_high_threshold THEN Some("high")
    ELSE IF score >= settings.exercise_match_threshold THEN Some("medium")
    ELSE IF score >= settings.exercise_match_low_threshold THEN Some("low")
    ELSE None

\* get_confidence_level, lines 77-84, with the thresholds of lines 23-25; the
\* value the call returns
get_confidence_level(score) ==
    IF score >= settings.exercise_match_high_threshold THEN Some("high")
    ELSE IF score >= settings.exercise_match_threshold THEN Some("medium")
    ELSE Some("low")

\* a caller calls get_confidence_level(score)
CallLevel(score) ==
    /\ matching' = [score |-> Some(score), level |-> get_confidence_level(score)]
    /\ UNCHANGED <<ivars, plans, settings, svars, preqs>>

-----------------------------------------------------------------------------
(* LLMService: the reply of the external service and _extract_json.          *)
(* A reply is either an exception of acompletion or a content, a sequence   *)
(* of tokens: prose, a ```json marker, a ``` marker, a JSON object, a JSON  *)
(* value that is no object.                                                 *)

Prose == [tok |-> "text"]

FenceJson == [tok |-> "fence_json"]

Fence == [tok |-> "fence"]

JObject(d) == [tok |-> "object", val |-> d]

JArray == [tok |-> "array"]

IsFence(t) == t.tok \in {"fence", "fence_json"}

\* str.find: the first index >= from whose token satisfies the test, 0 if none
FindFence(content, from) ==
    LET hits == {i \in from..Len(content) : IsFence(content[i])}
    IN  IF hits = {} THEN 0 ELSE CHOOSE i \in hits : \A k \in hits : i <= k

FindFenceJson(content) ==
    LET hits == {i \in 1..Len(content) : content[i].tok = "fence_json"}
    IN  IF hits = {} THEN 0 ELSE CHOOSE i \in hits : \A k \in hits : i <= k

\* content[start:end] with end = -1 when the closing marker is not found:
\* the slice then stops before the last token
Between(content, open) ==
    LET close == FindFence(content, open + 1)
        last  == IF close = 0 THEN Len(content) - 1 ELSE close - 1
    IN  SubSeq(content, open + 1, last)

\* json.loads: the text must be one JSON value
json_loads(content) ==
    IF Len(content) = 1 /\ content[1].tok \in {"object", "array"}
    THEN [ok |-> TRUE, val |-> content[1]]
    ELSE [ok |-> FALSE, err |-> "Invalid JSON response from LLM: Expecting value"]

extract_json(content) ==
    IF FindFenceJson(content) # 0
    THEN json_loads(Between(content, FindFenceJson(content)))
    ELSE IF FindFence(content, 1) # 0
    THEN json_loads(Between(content, FindFence(content, 1)))
    ELSE json_loads(content)

\* A message (str(e), an f-string) is the sequence of its pieces, the empty
\* string is the empty sequence
Str(s) == <<s>>

EmptyStr == <<>>

\* line 71 as it would be with the exception raised again as it came
LLMFailureBare(msg) == msg

\* the message of the exception parse_workout_text raises, line 71
LLMFailure(msg) == Str("Failed to parse workout plan: ") \o msg

\* lines 58-71: what is done with the value _extract_json returns or raises
ParsedData(parsed_data) ==
    IF ~parsed_data.ok
    THEN [ok |-> FALSE, err |-> LLMFailure(Str(parsed_data.err))]
    ELSE IF parsed_data.val.tok # "object"
    THEN [ok |-> FALSE,
          err |-> LLMFailure(Str("'list' object has no attribute 'get'"))]
    ELSE [ok |-> TRUE, val |-> parsed_data.val.val]

\* LLMService.parse_workout_text: the parsed data, or the raised exception
parse_workout_text(reply) ==
    IF reply.raised
    THEN [ok |-> FALSE, err |-> LLMFailure(reply.msg)]
    ELSE ParsedData(extract_json(reply.content))

-----------------------------------------------------------------------------
(* The workout_import_log table and the responses of the three endpoints *)

\* WorkoutImportLog(...): the columns the constructor call leaves out take
\* their defaults (status 'pending', the others NULL)
WorkoutImportLog(user_id, raw_text, parsed_exercises, confidence_scores) ==
    [user_id |-> user_id,
     workout_plan_id |-> None,
     raw_text |-> raw_text,
     parsed_exercises |-> parsed_exercises,
     confidence_scores |-> confidence_scores,
     status |-> "pending",
     result |-> None,
     error |-> None,
     created_at |-> "utcnow"]

\* uuid4 as primary key: an id no row has yet
FreshLogId == Cardinality(DOMAIN logs) + 1

FreshPlanId == Cardinality(plans) + 1

\* WorkoutPlan(...): is_active and deleted_at take their defaults.  A plan of
\* the model has one workout, which has the id of the plan.
WorkoutPlan(id, user_id, name, exercise_ids) ==
    [id |-> id, user_id |-> user_id, name |-> name, exercise_ids |-> exercise_ids,
     is_active |-> FALSE, deleted_at |-> None]

\* An import log id that no row ever gets
MissingId == 0

\* the query as it would be without the filter on user_id
FindLogAnyOwner(import_log_id, user_id) ==
    IF import_log_id \in DOMAIN logs THEN Some(import_log_id) ELSE None

\* db.query(WorkoutImportLog).filter(id == import_log_id, user_id == user_id).first()
FindLog(import_log_id, user_id) ==
    IF import_log_id \in DOMAIN logs /\ logs[import_log_id].user_id = user_id
    THEN Some(import_log_id)
    ELSE None

NotFound == [code |-> 404, detail |-> "Import log not found"]

AlreadyLinked ==
    [code |-> 400, detail |-> "Workout plan already created from this import"]

ExerciseIdsNotFound == [code |-> 400, detail |-> "Exercise IDs not found"]

Created(plan_id) == [code |-> 201, id |-> plan_id]

NoResponse == [code |-> 0]

\* get_parse_status, lines 622-632: the response for the row that was found
StatusOf(id, import_log) ==
    IF import_log.status = "completed" /\ import_log.result # None
    THEN [code |-> 200, import_log_id |-> id, status |-> import_log.status,
          result |-> import_log.result[1]]
    ELSE IF /\ import_log.status = "failed"
            /\ import_log.error # None
            /\ import_log.error # Some(EmptyStr)
    THEN [code |-> 200, import_log_id |-> id, status |-> import_log.status,
          error |-> import_log.error[1]]
    ELSE [code |-> 200, import_log_id |-> id, status |-> import_log.status]

\* get_parse_status, lines 611-632: the response for (import_log_id, user_id)
StatusResponse(import_log_id, user_id) ==
    IF FindLog(import_log_id, user_id) = None THEN NotFound
    ELSE StatusOf(import_log_id, logs[import_log_id])

-----------------------------------------------------------------------------
(* Initial state: empty tables, no task, no request *)

EmptyTables ==
    /\ logs = <<>>
    /\ plans = {}
    /\ pc = <<>>
    /\ loc = <<>>
    /\ replied = <<>>
    /\ reqs = <<>>
    /\ started = NoResponse
    /\ polled = NoResponse
    /\ sessions = <<>>
    /\ exercise_sessions = <<>>
    /\ personal_records = <<>>
    /\ sreqs = <<>>
    /\ preqs = <<>>

\* config.py lines 28-30: the defaults of the three thresholds, in hundredths
DefaultSettings ==
    [exercise_match_threshold |-> 80,
     exercise_match_high_threshold |-> 90,
     exercise_match_low_threshold |-> 70]

\* no call of the matcher
NoMatching == [exercises |-> <<>>, ratio |-> <<>>, top_n |-> 0, result |-> None]

\* config.py lines 28-34: the defaults, or the values an .env file gives
Configurations ==
    {DefaultSettings,
     [exercise_match_threshold |-> 85,
      exercise_match_high_threshold |-> 95,
      exercise_match_low_threshold |-> 75]}

\* the same, and thresholds an .env file gives out of order
LevelConfigurations ==
    Configurations \cup
        {[exercise_match_threshold |-> 90,
          exercise_match_high_threshold |-> 80,
          exercise_match_low_threshold |-> 70]}

Init ==
    /\ EmptyTables
    /\ settings = DefaultSettings
    /\ matching = NoMatching

\* the same with the thresholds the deployment is configured with
ConfiguredInit ==
    /\ EmptyTables
    /\ settings \in Configurations
    /\ matching = NoMatching

\* the locals of a background task before it has run
NoLocals ==
    [exercises |-> <<>>, llm_result |-> None, workouts |-> <<>>,
     stats |-> EmptyStats, total_exercises |-> 0, import_log_id |-> None]

-----------------------------------------------------------------------------
(* POST /workout-plans/parse: parse_workout_plan *)

\* The request body is validated first (422 and nothing else happens); then
\* the row is committed as pending, the task is created and the id returned.
parse_workout_plan(user_id, text, cap) ==
    LET request == validate_text(text)
    IN  IF ~request.ok
        THEN /\ started' = [code |-> 422, text |-> text, detail |-> request.err]
             /\ UNCHANGED <<logs, plans, pc, loc, replied, reqs, polled, mvars>>
        ELSE /\ Cardinality(DOMAIN pc) < cap
             /\ LET id == FreshLogId
                IN  /\ logs' = logs @@ (id :> WorkoutImportLog(user_id, request.val,
                                                                None, None))
                    /\ pc' = pc @@ (id :> "scheduled")
                    /\ loc' = loc @@ (id :> NoLocals)
                    /\ replied' = replied @@ (id :> None)
                    /\ started' = [code |-> 202, text |-> text,
                                   import_log_id |-> id, status |-> "pending"]
             /\ UNCHANGED <<plans, reqs, polled, mvars>>

-----------------------------------------------------------------------------
(* process_parsing: the background task of job j *)

\* the except branch as it would be if it only logged the exception
MarkFailedUnrecorded(j, msg) ==
    /\ logs' = logs
    /\ pc' = [pc EXCEPT ![j] = "done"]

\* the except branch, lines 568-576: the row is read again and, when it is
\* there, committed as failed with str(e)
MarkFailed(j, msg) ==
    /\ logs' = IF j \in DOMAIN logs
               THEN [logs EXCEPT ![j].status = "failed", ![j].error = Some(msg)]
               ELSE logs
    /\ pc' = [pc EXCEPT ![j] = "done"]

\* lines 536-543 as they would be with a query that takes every pending row
MarkProcessingEveryPending(j) ==
    /\ pc[j] = "scheduled"
    /\ logs' = [i \in DOMAIN logs |->
                   IF i = j \/ logs[i].status = "pending"
                   THEN [logs[i] EXCEPT !.status = "processing"]
                   ELSE logs[i]]
    /\ pc' = [pc EXCEPT ![j] = "processing"]
    /\ UNCHANGED <<plans, loc, replied, reqs, started, polled, mvars>>

\* lines 536-543 as they would be without the commit of 'processing'
MarkProcessingUncommitted(j) ==
    /\ pc[j] = "scheduled"
    /\ pc' = [pc EXCEPT ![j] = "processing"]
    /\ UNCHANGED <<logs, plans, loc, replied, reqs, started, polled, mvars>>

\* lines 536-543
MarkProcessing(j) ==
    /\ pc[j] = "scheduled"
    /\ logs' = [logs EXCEPT ![j].status = "processing"]
    /\ pc' = [pc EXCEPT ![j] = "processing"]
    /\ UNCHANGED <<plans, loc, replied, reqs, started, polled, mvars>>

\* parser_service.py line 44-46: the rows the filter
\* (not is_custom) | (user_id == self.user_id) is written to select
VisibleExercises(user_id) ==
    {ex \in ExerciseTable : (~ex.is_custom) \/ ex.user_id = Some(user_id)}

\* line 68: exercise_map, keyed by str(ex.id)
ExerciseMap(exercises) ==
    [id \in {ex.id : ex \in exercises} |->
        CHOOSE ex \in exercises : ex.id = id]

CatalogError == "unsupported operand type(s) for |: 'bool' and 'BinaryExpression'"

\* parse_workout_plan step 1 and the request to the LLM (lines 44-60 and
\* llm_service.py 43-56): the query returns the catalog and the task awaits
\* the reply, or the query raises and the except branch runs
LoadCatalog(j) ==
    /\ pc[j] = "processing"
    /\ \/ /\ loc' = [loc EXCEPT ![j].exercises =
                        ExerciseMap(VisibleExercises(logs[j].user_id))]
          /\ pc' = [pc EXCEPT ![j] = "awaiting_llm"]
          /\ UNCHANGED logs
       \/ /\ MarkFailed(j, Str(CatalogError))
          /\ UNCHANGED loc
    /\ UNCHANGED <<plans, replied, reqs, started, polled, mvars>>

\* parse_workout_plan step 4, lines 76-91: a second import log row
AuditLog(j, llm_result, stats) ==
    WorkoutImportLog(logs[j].user_id, logs[j].raw_text,
                     Some(Get(llm_result, "workouts", <<>>)),
                     Some([high_confidence |-> stats.high,
                           medium_confidence |-> stats.medium,
                           low_confidence |-> stats.low,
                           unmatched |-> stats.unmatched]))

\* lines 62-91 of parse_workout_plan, done being the outcome of the loop
Processed(j, llm_result, done) ==
    IF ~done.ok
    THEN /\ MarkFailed(j, Str(done.err))
         /\ UNCHANGED loc
    ELSE /\ logs' = logs @@ (FreshLogId :> AuditLog(j, llm_result, done.stats))
         /\ loc' = [loc EXCEPT ![j].llm_result = Some(llm_result),
                               ![j].workouts = done.val,
                               ![j].stats = done.stats,
                               ![j].total_exercises = done.total_exercises,
                               ![j].import_log_id = Some(FreshLogId)]
         /\ pc' = [pc EXCEPT ![j] = "logged"]

\* the step as it would be if a failed call of the LLM were made again
ExtractedRetrying(j, llm_result) ==
    IF ~llm_result.ok
    THEN UNCHANGED <<logs, pc, loc>>
    ELSE Processed(j, llm_result.val,
                   ProcessWorkouts(Get(llm_result.val, "workouts", <<>>), 1,
                                   loc[j].exercises, EmptyStats, 0))

Extracted(j, llm_result) ==
    IF ~llm_result.ok
    THEN /\ MarkFailed(j, llm_result.err)
         /\ UNCHANGED loc
    ELSE Processed(j, llm_result.val,
                   ProcessWorkouts(Get(llm_result.val, "workouts", <<>>), 1,
                                   loc[j].exercises, EmptyStats, 0))

\* The reply arrives: parse_workout_text returns or raises, the workouts are
\* processed (lines 62-73) and the second row is committed (line 90).
LLMReturn(j, reply) ==
    /\ pc[j] = "awaiting_llm"
    /\ replied' = [replied EXCEPT ![j] = Some(reply)]
    /\ Extracted(j, parse_workout_text(reply))
    /\ UNCHANGED <<plans, reqs, started, polled, mvars>>

\* parse_workout_plan step 5, lines 100-115
ParseResponse(j) ==
    IF Get(loc[j].llm_result[1], "name", Some("Workout Plan")) = None
    THEN [ok |-> FALSE, err |-> "validation error for ParsedWorkoutPlan"]
    ELSE [ok |-> TRUE,
          val |-> [parsed_plan |->
                       [name |-> Get(loc[j].llm_result[1], "name",
                                     Some("Workout Plan"))[1],
                        description |-> Get(loc[j].llm_result[1], "description", None),
                        workouts |-> loc[j].workouts,
                        raw_text |-> logs[j].raw_text,
                        import_log_id |-> loc[j].import_log_id[1]],
                   total_exercises |-> loc[j].total_exercises,
                   high_confidence_count |-> loc[j].stats.high,
                   medium_confidence_count |-> loc[j].stats.medium,
                   low_confidence_count |-> loc[j].stats.low,
                   unmatched_count |-> loc[j].stats.unmatched]]

\* lines 549-566 as they would be with the status committed without the result
MarkCompletedStatusOnly(j, result) ==
    /\ logs' = [logs EXCEPT ![j].status = "completed"]
    /\ pc' = [pc EXCEPT ![j] = "done"]

\* lines 549-566: status, result and the two audit columns in one commit
MarkCompleted(j, result) ==
    /\ logs' = [logs EXCEPT
                   ![j].status = "completed",
                   ![j].result = Some(result),
                   ![j].parsed_exercises = Some(result.parsed_plan.workouts),
                   ![j].confidence_scores =
                       Some([high_confidence |-> result.high_confidence_count,
                             medium_confidence |-> result.medium_confidence_count,
                             low_confidence |-> result.low_confidence_count,
                             unmatched |-> result.unmatched_count])]
    /\ pc' = [pc EXCEPT ![j] = "done"]

Finish(j, result) ==
    IF result.ok THEN MarkCompleted(j, result.val)
    ELSE MarkFailed(j, Str(result.err))

\* The response is built and the job is committed as completed, or the
\* construction of the response raises and the except branch runs.
Complete(j) ==
    /\ pc[j] = "logged"
    /\ Finish(j, ParseResponse(j))
    /\ UNCHANGED <<plans, loc, replied, reqs, started, polled, mvars>>

-----------------------------------------------------------------------------
(* GET /workout-plans/parse/status/{import_log_id}: get_parse_status *)

get_parse_status(import_log_id, user_id) ==
    /\ polled' = StatusResponse(import_log_id, user_id)
    /\ UNCHANGED <<logs, plans, pc, loc, replied, reqs, started, mvars>>

-----------------------------------------------------------------------------
(* POST /workout-plans/from-parsed: create_workout_plan_from_parsed.        *)
(* The request reads in its own session (lines 652-689) and commits the     *)
(* plan and the link together (lines 692-725); rows written by another      *)
(* session between the two are not read again.                              *)

LookupResponse(import_log_id, user_id, exercise_ids) ==
    IF FindLog(import_log_id, user_id) = None THEN NotFound
    ELSE IF logs[import_log_id].workout_plan_id # None THEN AlreadyLinked
    ELSE IF exercise_ids \ {ex.id : ex \in ExerciseTable} # {}
    THEN ExerciseIdsNotFound
    ELSE NoResponse

\* the request with the status of the row its query returned, "" if none
Request(user_id, import_log_id, exercise_ids, response) ==
    [user_id |-> user_id,
     import_log_id |-> import_log_id,
     exercise_ids |-> exercise_ids,
     import_log_status |-> IF FindLog(import_log_id, user_id) = None THEN ""
                           ELSE logs[import_log_id].status,
     pc |-> IF response = NoResponse THEN "creating" ELSE "done",
     response |-> response]

\* the request as it would be if the plan were committed before the exercise
\* ids are checked
from_parsed_lookup_creating_first(user_id, import_log_id, exercise_ids) ==
    /\ Len(reqs) < MaxReqs
    /\ reqs' = Append(reqs, Request(user_id, import_log_id, exercise_ids,
                          LookupResponse(import_log_id, user_id, exercise_ids)))
    /\ plans' = IF LookupResponse(import_log_id, user_id, exercise_ids)
                     = ExerciseIdsNotFound
                THEN plans \cup {WorkoutPlan(FreshPlanId, user_id, "Plan", {})}
                ELSE plans
    /\ UNCHANGED <<logs, pc, loc, replied, started, polled, mvars>>

from_parsed_lookup(user_id, import_log_id, exercise_ids) ==
    /\ Len(reqs) < MaxReqs
    /\ reqs' = Append(reqs, Request(user_id, import_log_id, exercise_ids,
                          LookupResponse(import_log_id, user_id, exercise_ids)))
    /\ UNCHANGED <<logs, plans, pc, loc, replied, started, polled, mvars>>

\* the commit as it would be if linking also dropped the stored draft
from_parsed_commit_dropping_result(r) ==
    /\ reqs[r].pc = "creating"
    /\ LET plan == WorkoutPlan(FreshPlanId, reqs[r].user_id, "Plan",
                               reqs[r].exercise_ids)
       IN  /\ plans' = plans \cup {plan}
           /\ logs' = [logs EXCEPT ![reqs[r].import_log_id].workout_plan_id =
                                       Some(plan.id),
                                   ![reqs[r].import_log_id].result = None]
           /\ reqs' = [reqs EXCEPT ![r].pc = "done",
                                   ![r].response = Created(plan.id)]
    /\ UNCHANGED <<pc, loc, replied, started, polled, mvars>>

\* lines 692-736: the plan, its workouts and the link, one commit.  The
\* UPDATE of the import log row sets workout_plan_id only.
from_parsed_commit(r) ==
    /\ reqs[r].pc = "creating"
    /\ LET plan == WorkoutPlan(FreshPlanId, reqs[r].user_id, "Plan",
                               reqs[r].exercise_ids)
       IN  /\ plans' = plans \cup {plan}
           /\ logs' = [logs EXCEPT ![reqs[r].import_log_id].workout_plan_id =
                                       Some(plan.id)]
           /\ reqs' = [reqs EXCEPT ![r].pc = "done",
                                   ![r].response = Created(plan.id)]
    /\ UNCHANGED <<pc, loc, replied, started, polled, mvars>>

-----------------------------------------------------------------------------
(* The workout session endpoints of api/workout_sessions.py.  A request     *)
(* reads the session in its own database session and commits later; rows     *)
(* committed by another request in between are not read again.               *)

WorkoutSession(user_id, workout_plan_id, workout_id) ==
    [user_id |-> user_id, workout_plan_id |-> workout_plan_id,
     workout_id |-> workout_id, status |-> "in_progress", deleted_at |-> None]

FreshSessionId == Cardinality(DOMAIN sessions) + 1

\* the query of the four endpoints: id, owner, not deleted
FindSession(session_id, user_id) ==
    IF /\ session_id \in DOMAIN sessions
       /\ sessions[session_id].user_id = user_id
       /\ sessions[session_id].deleted_at = None
    THEN Some(session_id)
    ELSE None

WorkoutNotFound == [code |-> 404, detail |-> "Workout not found"]

SessionNotFound == [code |-> 404, detail |-> "Workout session not found"]

CannotLog ==
    [code |-> 400,
     detail |-> "Cannot log exercises to a session that is not in progress"]

NotInProgress == [code |-> 400, detail |-> "Session is not in progress"]

ExerciseNotFound == [code |-> 400, detail |-> "Exercise not found"]

\* a request of the session endpoints with the status of the row its query
\* returned, "" if none
SessionRequest(op, user_id, session_id, body, response) ==
    [op |-> op, user_id |-> user_id, session_id |-> session_id, body |-> body,
     session_status |-> IF FindSession(session_id, user_id) = None THEN ""
                        ELSE sessions[session_id].status,
     pc |-> IF response = NoResponse THEN "writing" ELSE "done",
     response |-> response]

\* start_workout_session, lines 396-423: the workout must be one of a plan of
\* the user that is not deleted; the session is committed as in_progress
start_workout_session(user_id, workout_id) ==
    /\ Len(sreqs) < MaxSessionReqs
    /\ IF \E p \in plans : /\ p.id = workout_id
                           /\ p.user_id = user_id
                           /\ p.deleted_at = None
       THEN /\ sessions' = sessions @@
                  (FreshSessionId :> WorkoutSession(user_id, workout_id, workout_id))
            /\ sreqs' = Append(sreqs,
                  [SessionRequest("start", user_id, FreshSessionId, workout_id,
                                  [code |-> 201, session_id |-> FreshSessionId])
                      EXCEPT !.session_status = "in_progress"])
       ELSE /\ sreqs' = Append(sreqs, SessionRequest("start", user_id, MissingId,
                                                     workout_id, WorkoutNotFound))
            /\ UNCHANGED sessions
    /\ UNCHANGED <<ivars, plans, settings, matching, preqs,
                   exercise_sessions, personal_records>>

\* log_exercise, lines 547-576: the checks before anything is written
LogLookupResponse(session_id, user_id, request) ==
    IF FindSession(session_id, user_id) = None THEN SessionNotFound
    ELSE IF sessions[session_id].status # "in_progress" THEN CannotLog
    ELSE IF request.exercise_id \notin {ex.id : ex \in ExerciseTable}
    THEN ExerciseNotFound
    ELSE NoResponse

log_exercise_lookup(session_id, user_id, request) ==
    /\ Len(sreqs) < MaxSessionReqs
    /\ sreqs' = Append(sreqs,
           SessionRequest("log", user_id, session_id, request,
                          LogLookupResponse(session_id, user_id, request)))
    /\ UNCHANGED <<ivars, plans, settings, matching, preqs,
                   sessions, exercise_sessions, personal_records>>

\* lines 580-591: one exercise_session row per set of the request
LoggedSets(session_id, request) ==
    [i \in 1..Len(request.sets) |->
        [workout_session_id |-> session_id,
         exercise_id |-> request.exercise_id,
         weight |-> request.sets[i].weight,
         reps |-> request.sets[i].reps,
         set_number |-> request.sets[i].set_number]]

\* lines 578-597: the rows are added and committed
log_exercise_commit(r) ==
    /\ sreqs[r].op = "log" /\ sreqs[r].pc = "writing"
    /\ exercise_sessions' =
           exercise_sessions \o LoggedSets(sreqs[r].session_id, sreqs[r].body)
    /\ sreqs' = [sreqs EXCEPT
           ![r].pc = "done",
           ![r].response =
               [code |-> 201,
                exercise_session_ids |->
                    [i \in 1..Len(sreqs[r].body.sets) |-> Len(exercise_sessions) + i]]]
    /\ UNCHANGED <<ivars, plans, settings, matching, preqs,
                   sessions, personal_records>>

\* complete_workout_session and skip_workout_session, lines 616-637 and
\* 747-768: the checks before anything is written
StatusLookupResponse(session_id, user_id) ==
    IF FindSession(session_id, user_id) = None THEN SessionNotFound
    ELSE IF sessions[session_id].status # "in_progress" THEN NotInProgress
    ELSE NoResponse

complete_workout_session_lookup(session_id, user_id) ==
    /\ Len(sreqs) < MaxSessionReqs
    /\ sreqs' = Append(sreqs,
           SessionRequest("complete", user_id, session_id, None,
                          StatusLookupResponse(session_id, user_id)))
    /\ UNCHANGED <<ivars, plans, settings, matching, preqs,
                   sessions, exercise_sessions, personal_records>>

\* lines 654-670: the best set of every exercise of the session, the rows
\* taken in the order of the table
BestSet(exercise_max, i, es) ==
    IF es.exercise_id \notin DOMAIN exercise_max
    THEN exercise_max @@
             (es.exercise_id :> [max_weight |-> es.weight, max_reps |-> es.reps,
                                 best_session |-> i])
    ELSE IF es.weight > exercise_max[es.exercise_id].max_weight
    THEN [exercise_max EXCEPT ![es.exercise_id].max_weight = es.weight,
                              ![es.exercise_id].best_session = i]
    ELSE IF /\ es.weight = exercise_max[es.exercise_id].max_weight
            /\ es.reps > exercise_max[es.exercise_id].max_reps
    THEN [exercise_max EXCEPT ![es.exercise_id].max_reps = es.reps,
                              ![es.exercise_id].best_session = i]
    ELSE exercise_max

RECURSIVE ExerciseMax(_, _, _)
ExerciseMax(session_id, i, exercise_max) ==
    IF i > Len(exercise_sessions) THEN exercise_max
    ELSE IF exercise_sessions[i].workout_session_id # session_id
    THEN ExerciseMax(session_id, i + 1, exercise_max)
    ELSE ExerciseMax(session_id, i + 1,
                     BestSet(exercise_max, i, exercise_sessions[i]))

\* line 677, the Epley formula weight * (1 + reps / 30), in thirtieths
Estimated1RM(es) == es.weight * (EpleyDivisor + es.reps)

\* the value as the Numeric(10, 2) column keeps it: hundredths, rounded
StoredValue(thirtieths) ==
    (2 * 100 * thirtieths + EpleyDivisor) \div (2 * EpleyDivisor)

\* line 690: there is no record yet, or the estimate is above its value
IsNewRecord(user_id, exercise_id, estimated) ==
    \/ <<user_id, exercise_id>> \notin DOMAIN personal_records
    \/ 100 * estimated
         > EpleyDivisor * personal_records[<<user_id, exercise_id>>].value

\* the exercises of the session whose best set is a new record
NewRecords(user_id, exercise_max) ==
    {exercise_id \in DOMAIN exercise_max :
        IsNewRecord(user_id, exercise_id,
            Estimated1RM(exercise_sessions[exercise_max[exercise_id].best_session]))}

\* lines 694-710: the records updated or created
RecordsAfter(user_id, exercise_max, new) ==
    [key \in DOMAIN personal_records \cup {<<user_id, e>> : e \in new} |->
        IF key[1] = user_id /\ key[2] \in new
        THEN [value |-> StoredValue(Estimated1RM(
                            exercise_sessions[exercise_max[key[2]].best_session])),
              exercise_session_id |-> exercise_max[key[2]].best_session]
        ELSE personal_records[key]]

Completing(r, exercise_max) ==
    /\ personal_records' =
           RecordsAfter(sreqs[r].user_id, exercise_max,
                        NewRecords(sreqs[r].user_id, exercise_max))
    /\ sreqs' = [sreqs EXCEPT
           ![r].pc = "done",
           ![r].response =
               [code |-> 200, session_id |-> sreqs[r].session_id,
                status |-> "completed",
                new_personal_records |->
                    NewRecords(sreqs[r].user_id, exercise_max)]]

\* lines 640-730: the status, the personal records, one commit.  The UPDATE
\* of the session row sets the status whatever it is by then.
complete_workout_session_commit(r) ==
    /\ sreqs[r].op = "complete" /\ sreqs[r].pc = "writing"
    /\ sessions' = [sessions EXCEPT ![sreqs[r].session_id].status = "completed"]
    /\ Completing(r, ExerciseMax(sreqs[r].session_id, 1, <<>>))
    /\ UNCHANGED <<ivars, plans, settings, matching, preqs, exercise_sessions>>

skip_workout_session_lookup(session_id, user_id) ==
    /\ Len(sreqs) < MaxSessionReqs
    /\ sreqs' = Append(sreqs,
           SessionRequest("skip", user_id, session_id, None,
                          StatusLookupResponse(session_id, user_id)))
    /\ UNCHANGED <<ivars, plans, settings, matching, preqs,
                   sessions, exercise_sessions, personal_records>>

\* lines 771-779
skip_workout_session_commit(r) ==
    /\ sreqs[r].op = "skip" /\ sreqs[r].pc = "writing"
    /\ sessions' = [sessions EXCEPT ![sreqs[r].session_id].status = "abandoned"]
    /\ sreqs' = [sreqs EXCEPT
           ![r].pc = "done",
           ![r].response = [code |-> 200, session_id |-> sreqs[r].session_id,
                            status |-> "abandoned"]]
    /\ UNCHANGED <<ivars, plans, settings, matching, preqs,
                   exercise_sessions, personal_records>>

\* delete_workout_session, lines 795-809
delete_workout_session_lookup(session_id, user_id) ==
    /\ Len(sreqs) < MaxSessionReqs
    /\ sreqs' = Append(sreqs,
           SessionRequest("delete", user_id, session_id, None,
                          IF FindSession(session_id, user_id) = None
                          THEN SessionNotFound ELSE NoResponse))
    /\ UNCHANGED <<ivars, plans, settings, matching, preqs,
                   sessions, exercise_sessions, personal_records>>

\* lines 812-815: the soft delete
delete_workout_session_commit(r) ==
    /\ sreqs[r].op = "delete" /\ sreqs[r].pc = "writing"
    /\ sessions' = [sessions EXCEPT ![sreqs[r].session_id].deleted_at = Some("utcnow")]
    /\ sreqs' = [sreqs EXCEPT ![r].pc = "done", ![r].response = [code |-> 200]]
    /\ UNCHANGED <<ivars, plans, settings, matching, preqs,
                   exercise_sessions, personal_records>>

-----------------------------------------------------------------------------
(* The workout plan endpoints create, update, toggle-active and delete of   *)
(* api/workout_plans.py.  A request is a transaction: its SELECT reads the   *)
(* committed rows; the bulk UPDATE of toggle-active locks the rows it        *)
(* updates until the commit; the UPDATE of the plan itself is flushed by     *)
(* db.commit() and carries only the columns whose value the request changed. *)

PlanNotFound == [code |-> 404, detail |-> "Workout plan not found"]

\* db.query(WorkoutPlan).filter(id, user_id, deleted_at IS NULL).first()
FindPlan(plan_id, user_id) ==
    {p \in plans : p.id = plan_id /\ p.user_id = user_id /\ p.deleted_at = None}

\* a request with the row its query returned
PlanRequest(op, user_id, plan_id, request, position, response) ==
    [op |-> op, user_id |-> user_id, plan_id |-> plan_id, request |-> request,
     loaded |-> IF FindPlan(plan_id, user_id) = {} THEN None
                ELSE Some(CHOOSE p \in FindPlan(plan_id, user_id) : TRUE),
     locks |-> {},
     pc |-> position,
     response |-> response]

\* the requests other than create, which are counted against MaxPlanReqs
PlanLookups == {r \in DOMAIN preqs : preqs[r].op # "create"}

\* create_workout_plan, lines 235-296: the plan is inserted inactive; at most
\* cap requests are made
create_workout_plan(user_id, name, exercise_ids, cap) ==
    /\ Cardinality(DOMAIN preqs \ PlanLookups) < cap
    /\ IF exercise_ids \ {ex.id : ex \in ExerciseTable} # {}
       THEN /\ preqs' = Append(preqs,
                   PlanRequest("create", user_id, MissingId, exercise_ids, "done",
                               ExerciseIdsNotFound))
            /\ UNCHANGED plans
       ELSE /\ plans' = plans \cup
                   {WorkoutPlan(FreshPlanId, user_id, name, exercise_ids)}
            /\ preqs' = Append(preqs,
                   PlanRequest("create", user_id, FreshPlanId, exercise_ids, "done",
                               Created(FreshPlanId)))
    /\ UNCHANGED <<ivars, settings, matching, svars>>

\* another transaction holds the row lock of the plan
LockedByOther(plan_id, r) ==
    \E q \in DOMAIN preqs \ {r} :
        preqs[q].pc = "flushing" /\ plan_id \in preqs[q].locks

\* update_workout_plan, lines 316-358
UpdateLookupResponse(plan_id, user_id, request) ==
    IF FindPlan(plan_id, user_id) = {} THEN PlanNotFound
    ELSE IF /\ request.workouts # None
            /\ request.workouts[1] \ {ex.id : ex \in ExerciseTable} # {}
    THEN ExerciseIdsNotFound
    ELSE NoResponse

update_workout_plan_lookup(plan_id, user_id, request) ==
    /\ Cardinality(PlanLookups) < MaxPlanReqs
    /\ LET response == UpdateLookupResponse(plan_id, user_id, request)
       IN  preqs' = Append(preqs,
               PlanRequest("update", user_id, plan_id, request,
                           IF response = NoResponse THEN "flushing" ELSE "done",
                           response))
    /\ UNCHANGED <<ivars, plans, settings, matching, svars>>

\* the row after the UPDATE of lines 333-389: the name when the request
\* changes it, the workouts when the request gives them
Updated(p, loaded, request) ==
    [p EXCEPT
        !.name = IF request.name # None /\ request.name[1] # loaded.name
                 THEN request.name[1] ELSE @,
        !.exercise_ids = IF request.workouts # None THEN request.workouts[1] ELSE @]

update_workout_plan_commit(r) ==
    /\ preqs[r].op = "update" /\ preqs[r].pc = "flushing"
    /\ ~LockedByOther(preqs[r].plan_id, r)
    /\ plans' = {IF p.id = preqs[r].plan_id
                 THEN Updated(p, preqs[r].loaded[1], preqs[r].request)
                 ELSE p : p \in plans}
    /\ preqs' = [preqs EXCEPT ![r].pc = "done",
                              ![r].response = [code |-> 200, id |-> preqs[r].plan_id]]
    /\ UNCHANGED <<ivars, settings, matching, svars>>

\* toggle_workout_plan_active, lines 417-431
toggle_workout_plan_active_lookup(plan_id, user_id, request) ==
    /\ Cardinality(PlanLookups) < MaxPlanReqs
    /\ preqs' = Append(preqs,
           PlanRequest("toggle", user_id, plan_id, request,
                       IF FindPlan(plan_id, user_id) = {} THEN "done"
                       ELSE IF request.is_active THEN "selected" ELSE "flushing",
                       IF FindPlan(plan_id, user_id) = {} THEN PlanNotFound
                       ELSE NoResponse))
    /\ UNCHANGED <<ivars, plans, settings, matching, svars>>

\* the rows the UPDATE of lines 435-439 selects
OtherPlans(plan_id, user_id) ==
    {p.id : p \in {q \in plans : /\ q.user_id = user_id
                                 /\ q.deleted_at = None
                                 /\ q.id # plan_id}}

\* lines 433-439: the other plans of the user are updated to inactive and
\* stay locked until the commit; the statement waits while a row is locked
deactivate_other_plans(r) ==
    /\ preqs[r].op = "toggle" /\ preqs[r].pc = "selected"
    /\ \A id \in OtherPlans(preqs[r].plan_id, preqs[r].user_id) :
          ~LockedByOther(id, r)
    /\ preqs' = [preqs EXCEPT
           ![r].pc = "flushing",
           ![r].locks = OtherPlans(preqs[r].plan_id, preqs[r].user_id)]
    /\ UNCHANGED <<ivars, plans, settings, matching, svars>>

\* line 442 changes the value the row was loaded with
TogglesPlan(r) == preqs[r].loaded[1].is_active # preqs[r].request.is_active

\* lines 442-453: the UPDATE of the plan is flushed, everything is committed
toggle_workout_plan_active_commit(r) ==
    /\ preqs[r].op = "toggle" /\ preqs[r].pc = "flushing"
    /\ TogglesPlan(r) => ~LockedByOther(preqs[r].plan_id, r)
    /\ plans' = {IF p.id \in preqs[r].locks THEN [p EXCEPT !.is_active = FALSE]
                 ELSE IF p.id = preqs[r].plan_id /\ TogglesPlan(r)
                 THEN [p EXCEPT !.is_active = preqs[r].request.is_active]
                 ELSE p : p \in plans}
    /\ preqs' = [preqs EXCEPT
           ![r].pc = "done",
           ![r].locks = {},
           ![r].response = [code |-> 200, id |-> preqs[r].plan_id]]
    /\ UNCHANGED <<ivars, settings, matching, svars>>

\* delete_workout_plan, lines 472-486
delete_workout_plan_lookup(plan_id, user_id) ==
    /\ Cardinality(PlanLookups) < MaxPlanReqs
    /\ preqs' = Append(preqs,
           PlanRequest("delete", user_id, plan_id, None,
                       IF FindPlan(plan_id, user_id) = {} THEN "done" ELSE "flushing",
                       IF FindPlan(plan_id, user_id) = {} THEN PlanNotFound
                       ELSE NoResponse))
    /\ UNCHANGED <<ivars, plans, settings, matching, svars>>

\* lines 489-494: deleted_at is set; is_active is in the UPDATE only when the
\* row was loaded active
delete_workout_plan_commit(r) ==
    /\ preqs[r].op = "delete" /\ preqs[r].pc = "flushing"
    /\ ~LockedByOther(preqs[r].plan_id, r)
    /\ plans' = {IF p.id = preqs[r].plan_id
                 THEN [p EXCEPT !.deleted_at = Some("utcnow"),
                                !.is_active = IF preqs[r].loaded[1].is_active
                                              THEN FALSE ELSE @]
                 ELSE p : p \in plans}
    /\ preqs' = [preqs EXCEPT ![r].pc = "done", ![r].response = [code |-> 200]]
    /\ UNCHANGED <<ivars, settings, matching, svars>>

\* the rows the next statement of request r has to lock
RowsNeeded(r) ==
    IF preqs[r].pc = "selected"
    THEN OtherPlans(preqs[r].plan_id, preqs[r].user_id)
    ELSE IF preqs[r].pc = "flushing" /\ (preqs[r].op = "toggle" => TogglesPlan(r))
    THEN {preqs[r].plan_id}
    ELSE {}

\* the transactions request r waits for
WaitsFor(r) ==
    {q \in DOMAIN preqs \ {r} :
        preqs[q].pc = "flushing" /\ preqs[q].locks \cap RowsNeeded(r) # {}}

RECURSIVE WaitsForWithin(_, _)
WaitsForWithin(rs, n) ==
    IF n = 0 THEN rs
    ELSE WaitsForWithin(rs \cup UNION {WaitsFor(q) : q \in rs}, n - 1)

\* The database ends a deadlock: a transaction that waits for itself is
\* rolled back, its locks are released, the request fails
deadlock_abort(r) ==
    /\ preqs[r].pc \in {"selected", "flushing"}
    /\ r \in WaitsForWithin(WaitsFor(r), Len(preqs))
    /\ preqs' = [preqs EXCEPT ![r].pc = "done", ![r].locks = {},
                              ![r].response = [code |-> 500]]
    /\ UNCHANGED <<ivars, plans, settings, matching, svars>>

-----------------------------------------------------------------------------
(* Inputs *)

\* Request texts around the two limits of validate_text
TextInputs ==
    {[lead |-> 1, body |-> MinTextLen - 1, trail |-> 0],
     [lead |-> 0, body |-> MinTextLen, trail |-> 1],
     [lead |-> 0, body |-> MaxTextLen, trail |-> 0],
     [lead |-> 1, body |-> MaxTextLen, trail |-> 0],
     [lead |-> 0, body |-> MaxTextLen + 1, trail |-> 0]}

PlainText == [lead |-> 0, body |-> MinTextLen, trail |-> 0]

\* What the LLM may return for one exercise: no match, a match of e1 at each
\* side of the three thresholds, a match of an id that is not in the catalog
ExerciseDrafts ==
    {[original_text |-> Some("Squat"), sequence |-> 0]}
    \cup {[original_text |-> Some("Squat"), sequence |-> 0,
           exercise_id |-> Some("e1"), confidence |-> Num(c)] :
            c \in {LowThreshold - 1, LowThreshold, MediumThreshold, HighThreshold}}
    \cup {[original_text |-> Some("Squat"), sequence |-> 0,
           exercise_id |-> Some("e9"), confidence |-> Num(HighThreshold)]}

SeqsUpTo(S, n) == UNION {[1..k -> S] : k \in 0..n}

WorkoutDrafts ==
    {[name |-> Some("Day 1"), order_index |-> 0, exercises |-> exs] :
        exs \in SeqsUpTo(ExerciseDrafts, MaxExercises)}

AllDrafts ==
    {[name |-> Some("Plan"), workouts |-> ws] :
        ws \in SeqsUpTo(WorkoutDrafts, MaxWorkouts)}

Squat(c) ==
    [original_text |-> Some("Squat"), sequence |-> 0,
     exercise_id |-> Some("e1"), confidence |-> Num(c),
     sets |-> JList(<<[reps_min |-> 5, reps_max |-> 5]>>)]

OneWorkout(exs) == [name |-> Some("Day 1"), order_index |-> 0, exercises |-> exs]

GoodDraft == [name |-> Some("Plan"), workouts |-> <<OneWorkout(<<Squat(95)>>)>>]

\* Drafts the processing or the assembly of the response rejects: a null
\* plan name, reps outside 1..200, a confidence that is no number
NullNameDraft == [name |-> None, workouts |-> <<OneWorkout(<<Squat(95)>>)>>]

BadRepsDraft ==
    [name |-> Some("Plan"),
     workouts |-> <<OneWorkout(<<[original_text |-> Some("Squat"), sequence |-> 0,
                                  sets |-> JList(<<[reps_min |-> 0,
                                                    reps_max |-> 5]>>)]>>)>>]

BadConfidenceDraft ==
    [name |-> Some("Plan"),
     workouts |-> <<OneWorkout(<<[original_text |-> Some("Squat"), sequence |-> 0,
                                  exercise_id |-> Some("e1"),
                                  confidence |-> NotNum]>>)>>]

Raised(msg) == [raised |-> TRUE, msg |-> msg]

Content(tokens) == [raised |-> FALSE, content |-> tokens]

\* acompletion raises (timeout, connection, non-2xx; str(e) may be empty)
FailedReplies == {Raised(Str("Request timed out")), Raised(EmptyStr)}

\* a content json.loads rejects or that is no JSON object
BadContents ==
    {Content(<<Prose>>), Content(<<JArray>>),
     Content(<<FenceJson, JObject(GoodDraft)>>)}

Replies ==
    FailedReplies \cup BadContents
    \cup {Content(<<JObject(GoodDraft)>>),
          Content(<<Prose, FenceJson, JObject(GoodDraft), Fence, Prose>>),
          Content(<<Fence, JObject(NullNameDraft), Fence>>),
          Content(<<JObject(BadRepsDraft)>>),
          Content(<<JObject(BadConfidenceDraft)>>)}

LinkReplies == {Raised(Str("Request timed out")), Content(<<JObject(GoodDraft)>>)}

\* an exercise whose sets are a count and one reps range
CountedSets(n) ==
    [original_text |-> Some("Squat"), sequence |-> 0,
     exercise_id |-> Some("e1"), confidence |-> Num(95),
     sets |-> JCount(n), reps_min |-> 5, reps_max |-> 5]

CountDrafts ==
    {[name |-> Some("Plan"), workouts |-> <<OneWorkout(<<CountedSets(n)>>)>>] :
        n \in {0, 2}}

\* a draft without the plan name
NamelessDraft == [workouts |-> <<OneWorkout(<<Squat(95)>>)>>]

\* an exercise with the given value of "sets"
WithSets(sets) ==
    [original_text |-> Some("Squat"), sequence |-> 0,
     exercise_id |-> Some("e1"), confidence |-> Num(95), sets |-> sets]

\* drafts whose sets are a list: empty, of two sets, of one set with reps_min
\* above reps_max, of one set with a reps_min above the default reps_max
SetsDrafts ==
    {[name |-> Some("Plan"), workouts |-> <<OneWorkout(<<WithSets(JList(sets))>>)>>] :
        sets \in {<<>>,
                  <<[reps_min |-> 5, reps_max |-> 5], [reps_min |-> 8, reps_max |-> 10]>>,
                  <<[reps_min |-> 10, reps_max |-> 5]>>,
                  <<[reps_min |-> 15]>>}}

ParseReplies ==
    {Content(<<JObject(d)>>) : d \in AllDrafts \cup CountDrafts \cup SetsDrafts}
    \cup {Content(<<JObject(BadRepsDraft)>>), Content(<<JObject(NullNameDraft)>>),
          Content(<<JObject(NamelessDraft)>>)}

\* The names of the exercise rows the matcher is run on
MatchNames == {"Squat", "Bench Press"}

ExerciseRows(names) == [i \in 1..Len(names) |-> [id |-> i, name |-> names[i]]]

\* exercise tables of up to MaxCatalog rows; two rows may have the same name
\* (a custom exercise named as a global one: the column is not unique)
MatchCatalogs ==
    {ExerciseRows(names) : names \in SeqsUpTo(MatchNames, MaxCatalog)}

\* scores at each side of every configured floor, and the score of equal texts
MatchScores ==
    UNION {{c.exercise_match_low_threshold - 1, c.exercise_match_low_threshold} :
              c \in Configurations}
    \cup {RatioScale}

MatchInputs ==
    {[exercises |-> exercises, ratio |-> ratio, top_n |-> top_n, result |-> None] :
        exercises \in MatchCatalogs,
        ratio \in [MatchNames -> MatchScores],
        top_n \in 1..MaxTopN}

\* The characters of the texts the scorer is run on: two letters and the space
Letters == {1, 2}

Chars == Letters \cup {Space}

\* exercise names, ExerciseBase.name: at least one character; here words with
\* one space between them
TypoNames ==
    {s \in SeqsUpTo(Chars, MaxNameLen) \ {<<>>} : s = Join(Split(s, 1, <<>>))}

TypoCatalogs ==
    {ExerciseRows(names) : names \in SeqsUpTo(TypoNames, MaxTypoCatalog) \ {<<>>}}

\* the texts one edit away from s: a character left out, replaced or added
Deletions(s) ==
    {SubSeq(s, 1, i - 1) \o SubSeq(s, i + 1, Len(s)) : i \in 1..Len(s)}

Substitutions(s) == {[s EXCEPT ![i] = c] : i \in 1..Len(s), c \in Chars}

Insertions(s) ==
    {SubSeq(s, 1, i) \o <<c>> \o SubSeq(s, i + 1, Len(s)) :
        i \in 0..Len(s), c \in Chars}

OneEdits(s) == (Deletions(s) \cup Substitutions(s) \cup Insertions(s)) \ {s}

\* a first call of the matcher with the text exercise_text
FirstCall(exercises, exercise_text) ==
    [exercises |-> exercises, exercise_text |-> exercise_text,
     ratio |-> Scores(exercise_text, exercises), top_n |-> DefaultTopN,
     result |-> None, earlier |-> <<>>]

\* the calls whose text is the name of a row of the table
ExactCalls ==
    UNION {{FirstCall(exercises, exercises[i].name) : i \in 1..Len(exercises)} :
              exercises \in TypoCatalogs}

\* the bodies of POST /workout-sessions/{id}/exercises: one set, two sets of
\* one weight, a heavier second set; an exercise that does not exist
SetLogs ==
    {<<[set_number |-> 1, reps |-> 5, weight |-> 50]>>,
     <<[set_number |-> 1, reps |-> 5, weight |-> 50],
       [set_number |-> 2, reps |-> 8, weight |-> 50]>>,
     <<[set_number |-> 1, reps |-> 5, weight |-> 50],
       [set_number |-> 2, reps |-> 3, weight |-> 60]>>}

LogRequests ==
    {[exercise_id |-> "e1", sets |-> sets] : sets \in SetLogs}
    \cup {[exercise_id |-> "e9",
            sets |-> <<[set_number |-> 1, reps |-> 5, weight |-> 50]>>]}

\* the bodies of PATCH /workout-plans/{id}/active
ToggleRequests == {[is_active |-> TRUE], [is_active |-> FALSE]}

\* the bodies of PUT /workout-plans/{id}: a new name, new workouts, workouts
\* with an exercise that does not exist
UpdateRequests ==
    {[name |-> Some("Renamed"), workouts |-> None],
     [name |-> None, workouts |-> Some({"e2"})],
     [name |-> None, workouts |-> Some({"e9"})]}

PlanIds == {p.id : p \in plans} \cup {MissingId}

-----------------------------------------------------------------------------
(* Specifications *)

StartImport(users, texts, cap) ==
    \E u \in users, t \in texts : parse_workout_plan(u, t, cap)

\* one step of the background task of job j
Worker(j, replies) ==
    \/ MarkProcessing(j)
    \/ LoadCatalog(j)
    \/ \E reply \in replies : LLMReturn(j, reply)
    \/ Complete(j)

GetStatus ==
    \E u \in Users, id \in DOMAIN logs \cup {MissingId} : get_parse_status(id, u)

ConsumeLookup ==
    \E u \in Users, id \in DOMAIN logs \cup {MissingId},
       exercise_ids \in {{"e1"}, {"e9"}} :
         from_parsed_lookup(u, id, exercise_ids)

ConsumeCommit == \E r \in DOMAIN reqs : from_parsed_commit(r)

\* The import pipeline: StartImport, the workers, GetStatus
Next ==
    \/ StartImport(Users, {PlainText}, MaxJobs)
    \/ \E j \in DOMAIN pc : MarkProcessing(j)
    \/ \E j \in DOMAIN pc : LoadCatalog(j)
    \/ \E j \in DOMAIN pc, reply \in Replies : LLMReturn(j, reply)
    \/ \E j \in DOMAIN pc : Complete(j)
    \/ GetStatus

Spec == Init /\ [][Next]_vars

\* The import pipeline with every created task scheduled until it ends and
\* every LLM call answered (acompletion returns or raises within its timeout)
LiveSpec ==
    Spec /\ \A j \in 1..(2 * MaxJobs) : WF_vars(j \in DOMAIN pc /\ Worker(j, Replies))

\* The import pipeline over the texts around the limits of validate_text
TextNext ==
    \/ StartImport({"u1"}, TextInputs, MaxJobs)
    \/ \E j \in DOMAIN pc : MarkProcessing(j)
    \/ \E j \in DOMAIN pc : LoadCatalog(j)
    \/ \E j \in DOMAIN pc, reply \in LinkReplies : LLMReturn(j, reply)
    \/ \E j \in DOMAIN pc : Complete(j)
    \/ GetStatus

TextSpec == Init /\ [][TextNext]_vars

\* The pipeline together with ConsumeResult; u1 imports, u1 and u2 poll and
\* consume
LinkNext ==
    \/ StartImport({"u1"}, {PlainText}, MaxJobs)
    \/ \E j \in DOMAIN pc : MarkProcessing(j)
    \/ \E j \in DOMAIN pc : LoadCatalog(j)
    \/ \E j \in DOMAIN pc, reply \in LinkReplies : LLMReturn(j, reply)
    \/ \E j \in DOMAIN pc : Complete(j)
    \/ GetStatus
    \/ ConsumeLookup
    \/ ConsumeCommit

LinkSpec == Init /\ [][LinkNext]_vars

\* One import, over every draft the LLM may return
ParseNext ==
    \/ StartImport({"u1"}, {PlainText}, 1)
    \/ \E j \in DOMAIN pc : MarkProcessing(j)
    \/ \E j \in DOMAIN pc : LoadCatalog(j)
    \/ \E j \in DOMAIN pc, reply \in ParseReplies : LLMReturn(j, reply)
    \/ \E j \in DOMAIN pc : Complete(j)
    \/ GetStatus

ParseSpec == ConfiguredInit /\ [][ParseNext]_vars

\* The matcher alone, on every table, score and top_n of the bounds
MatchInit ==
    /\ EmptyTables
    /\ settings \in Configurations
    /\ matching \in MatchInputs

MatchNext == match_exercise

MatchSpec == MatchInit /\ [][MatchNext]_vars

\* The matcher with its scorer: a call with the name of a row, then calls with
\* the texts one edit away from it
TypoInit ==
    /\ EmptyTables
    /\ settings \in Configurations
    /\ matching \in ExactCalls

TypoNext ==
    \/ match_exercise
    \/ /\ Len(matching.earlier) < MaxCalls - 1
       /\ \E exercise_text \in OneEdits(matching.exercise_text) :
              CallMatcher(exercise_text)

TypoSpec == TypoInit /\ [][TypoNext]_vars

\* get_confidence_level alone, on every score from 0 to 1 in hundredths
LevelInit ==
    /\ EmptyTables
    /\ settings \in LevelConfigurations
    /\ matching = [score |-> None, level |-> None]

LevelNext == \E score \in 0..RatioScale : CallLevel(score)

LevelSpec == LevelInit /\ [][LevelNext]_vars

\* The workout session endpoints, on the workout of one plan of u1
SessionNext ==
    \/ create_workout_plan("u1", "Plan", {"e1"}, 1)
    \/ \E u \in Users, workout_id \in PlanIds : start_workout_session(u, workout_id)
    \/ \E u \in Users, id \in DOMAIN sessions \cup {MissingId},
          request \in LogRequests : log_exercise_lookup(id, u, request)
    \/ \E r \in DOMAIN sreqs : log_exercise_commit(r)
    \/ \E u \in Users, id \in DOMAIN sessions \cup {MissingId} :
          complete_workout_session_lookup(id, u)
    \/ \E r \in DOMAIN sreqs : complete_workout_session_commit(r)
    \/ \E u \in Users, id \in DOMAIN sessions \cup {MissingId} :
          skip_workout_session_lookup(id, u)
    \/ \E r \in DOMAIN sreqs : skip_workout_session_commit(r)
    \/ \E u \in Users, id \in DOMAIN sessions \cup {MissingId} :
          delete_workout_session_lookup(id, u)
    \/ \E r \in DOMAIN sreqs : delete_workout_session_commit(r)

SessionSpec == Init /\ [][SessionNext]_vars

\* The workout plan endpoints create, update, toggle-active and delete
PlanNext ==
    \/ \E u \in Users, exercise_ids \in {{"e1"}, {"e9"}} :
          create_workout_plan(u, "Plan", exercise_ids, MaxPlans)
    \/ \E u \in Users, id \in PlanIds, request \in UpdateRequests :
          update_workout_plan_lookup(id, u, request)
    \/ \E r \in DOMAIN preqs : update_workout_plan_commit(r)
    \/ \E u \in Users, id \in PlanIds, request \in ToggleRequests :
          toggle_workout_plan_active_lookup(id, u, request)
    \/ \E r \in DOMAIN preqs : deactivate_other_plans(r)
    \/ \E r \in DOMAIN preqs : toggle_workout_plan_active_commit(r)
    \/ \E u \in Users, id \in PlanIds : delete_workout_plan_lookup(id, u)
    \/ \E r \in DOMAIN preqs : delete_workout_plan_commit(r)
    \/ \E r \in DOMAIN preqs : deadlock_abort(r)

PlanSpec == Init /\ [][PlanNext]_vars

-----------------------------------------------------------------------------
(* Properties *)

Terminal == {"completed", "failed"}

Transitions ==
    {<<"pending", "processing">>, <<"processing", "completed">>,
     <<"processing", "failed">>}

Owner(id) == logs[id].user_id

StatusStep(id) ==
    IF id \notin DOMAIN logs
    THEN logs'[id].status = "pending"
    ELSE \/ logs'[id].status = logs[id].status
         \/ <<logs[id].status, logs'[id].status>> \in Transitions

\* C1: the status of an import job is pending when StartImport creates it,
\* and every later change of a status is pending -> processing,
\* processing -> completed or processing -> failed.
C1_StatusTransitions ==
    [][/\ \A id \in DOMAIN logs' : StatusStep(id)
       /\ \A j \in DOMAIN pc' \ DOMAIN pc : logs'[j].status = "pending"]_vars

C1_Witness ==
    \E j, k \in DOMAIN pc :
        logs[j].status = "completed" /\ logs[k].status = "failed"

TerminalKept(id) ==
    logs[id].status \in Terminal =>
        /\ logs'[id].status = logs[id].status
        /\ logs'[id].result = logs[id].result
        /\ logs'[id].error = logs[id].error
        /\ StatusResponse(id, Owner(id))' = StatusResponse(id, Owner(id))

\* C2: once a job is completed or failed, no operation (worker step, GetStatus,
\* StartImport of another job, ConsumeResult) changes its status, result or
\* error, and GetStatus by the owner keeps returning the same response.
C2_TerminalImmutable == [][\A id \in DOMAIN logs : TerminalKept(id)]_vars

C2_Witness ==
    \E j \in DOMAIN pc :
        /\ logs[j].status = "completed"
        /\ logs[j].workout_plan_id # None
        /\ polled = StatusResponse(j, Owner(j))
        /\ \E k \in DOMAIN pc : k > j /\ logs[k].status = "failed"

\* a GetStatus response carries a result only with status completed, an error
\* only with status failed, and never both
OneOutcome(r) ==
    /\ ~("result" \in DOMAIN r /\ "error" \in DOMAIN r)
    /\ "result" \in DOMAIN r => r.status = "completed"
    /\ "error" \in DOMAIN r => r.status = "failed"
    /\ ("status" \in DOMAIN r /\ r.status = "completed") => "result" \in DOMAIN r
    /\ ("status" \in DOMAIN r /\ r.status = "failed") => "error" \in DOMAIN r

\* C3: a job has a result exactly when its status is completed and an error
\* exactly when its status is failed; GetStatus never returns both.
C3_ResultXorError ==
    /\ \A id \in DOMAIN logs :
          /\ logs[id].result # None <=> logs[id].status = "completed"
          /\ logs[id].error # None <=> logs[id].status = "failed"
    /\ \A id \in DOMAIN logs, u \in Users : OneOutcome(StatusResponse(id, u))
    /\ OneOutcome(polled)

C3_Witness ==
    /\ polled.code = 200
    /\ "result" \in DOMAIN polled
    /\ \E k \in DOMAIN pc : logs[k].status = "failed"

\* C4: when every started worker keeps being scheduled and every LLM call
\* returns or times out, every job created by StartImport eventually has
\* status completed or failed.
C4_EventuallyTerminal ==
    \A j \in 1..(2 * MaxJobs) :
        (j \in DOMAIN pc) ~> (j \in DOMAIN logs /\ logs[j].status \in Terminal)

C4_Witness ==
    \E j \in DOMAIN pc :
        /\ pc[j] = "done"
        /\ logs[j].status = "failed"
        /\ logs[j].error = Some(Str(CatalogError))

\* the LLM call raised (timeout, network, non-2xx) or its content is no JSON
ExtractionFailed(reply) == reply.raised \/ ~extract_json(reply.content).ok

FailureRecorded(j) ==
    (replied[j] # None /\ ExtractionFailed(replied[j][1])) =>
        /\ pc[j] = "done"
        /\ logs[j].status = "failed"
        /\ logs[j].error \notin {None, Some(EmptyStr)}
        /\ logs[j].result = None

\* C5: when the extraction of a job fails, the worker ends with the job failed
\* and a non-empty error, the job never completes, and the response StartImport
\* gave (202 with the job id, before the worker ran) is not touched.
C5_ExtractionFailure ==
    [][/\ \A j \in DOMAIN pc' : FailureRecorded(j)'
       /\ \A j \in DOMAIN pc' \ DOMAIN pc :
             started'.code = 202 /\ started'.import_log_id = j
       /\ (\E j \in DOMAIN pc : replied'[j] # replied[j]) => started' = started]_vars

C5_Witness ==
    \E j \in DOMAIN pc :
        /\ replied[j] = Some(Raised(EmptyStr))
        /\ logs[j].status = "failed"
        /\ \E k \in DOMAIN pc :
              /\ replied[k] = Some(Content(<<FenceJson, JObject(GoodDraft)>>))
              /\ logs[k].status = "failed"

\* request r gets its response in this step
Answered(r) ==
    /\ r \in DOMAIN reqs'
    /\ reqs'[r].pc = "done"
    /\ r \in DOMAIN reqs => reqs[r].pc # "done"

LinkedKept(id) ==
    logs[id].workout_plan_id # None =>
        /\ logs'[id].workout_plan_id = logs[id].workout_plan_id
        /\ \A r \in DOMAIN reqs' :
              (/\ Answered(r)
               /\ reqs'[r].import_log_id = id
               /\ reqs'[r].user_id = Owner(id)) =>
                  reqs'[r].response = AlreadyLinked /\ plans' = plans

\* C6: after one ConsumeResult has succeeded for a job, every later
\* ConsumeResult of the owner for that job returns AlreadyLinked and creates
\* no plan, and the linked plan id of the job never changes again.
C6_LinkedOnce == [][\A id \in DOMAIN logs : LinkedKept(id)]_vars

\* two answered requests of the owner for the same job, both of which found
\* the job completed, with known exercises
Racing(r1, r2) ==
    /\ r1 < r2
    /\ reqs[r1].import_log_id = reqs[r2].import_log_id
    /\ reqs[r1].import_log_id \in DOMAIN logs
    /\ reqs[r1].user_id = Owner(reqs[r1].import_log_id)
    /\ reqs[r2].user_id = Owner(reqs[r1].import_log_id)
    /\ reqs[r1].exercise_ids = {"e1"} /\ reqs[r2].exercise_ids = {"e1"}
    /\ reqs[r1].pc = "done" /\ reqs[r2].pc = "done"
    /\ reqs[r1].import_log_status = "completed"
    /\ reqs[r2].import_log_status = "completed"

\* C7: of two ConsumeResult calls for the same completed job, however their
\* steps interleave, exactly one returns Ok and the other AlreadyLinked, and
\* exactly one plan exists for the job.
C7_OneWinner ==
    \A r1, r2 \in DOMAIN reqs :
        Racing(r1, r2) =>
            /\ {reqs[r1].response.code, reqs[r2].response.code} = {201, 400}
            /\ AlreadyLinked \in {reqs[r1].response, reqs[r2].response}
            /\ Cardinality({p \in plans : p.user_id = reqs[r1].user_id}) = 1

ConsumeInputs == {{"e1"}, {"e9"}}

Foreign(r) ==
    /\ r.import_log_id \in DOMAIN logs
    /\ r.user_id # Owner(r.import_log_id)

Isolated ==
    /\ \A id \in DOMAIN logs : \A u \in Users \ {Owner(id)} :
          /\ StatusResponse(id, u) = StatusResponse(MissingId, u)
          /\ \A x \in ConsumeInputs :
                LookupResponse(id, u, x) = LookupResponse(MissingId, u, x)
    /\ \A r \in DOMAIN reqs :
          Foreign(reqs[r]) => reqs[r].pc = "done" /\ reqs[r].response = NotFound
    /\ \A p \in plans : \E id \in DOMAIN logs : Owner(id) = p.user_id

\* C8: GetStatus and ConsumeResult by a user who does not own the job answer
\* exactly as for an id that does not exist (NotFound), create no plan and
\* leave the job as it was.
C8_OwnerIsolation ==
    [][/\ Isolated'
       /\ (Len(reqs') > Len(reqs) /\ Foreign(reqs'[Len(reqs')])) =>
             logs' = logs /\ plans' = plans
       /\ polled' # polled => logs' = logs /\ plans' = plans]_vars

C8_Witness ==
    /\ polled = NotFound
    /\ \E r \in DOMAIN reqs :
          /\ reqs[r].user_id = "u2"
          /\ reqs[r].import_log_id \in DOMAIN logs
          /\ logs[reqs[r].import_log_id].status = "completed"
          /\ reqs[r].response = NotFound

\* fewer than 10 characters after trimming, or more than 50,000
BadText(t) == TextLen(Strip(t)) < MinTextLen \/ TextLen(t) > MaxTextLen

\* C9: StartImport with a text of fewer than 10 characters after trimming or
\* of more than 50,000 characters answers with a validation error, creates no
\* job and starts no worker; every stored text is within the two limits.
C9_TextValidation ==
    [][/\ (started' # started /\ BadText(started'.text)) =>
             started'.code = 422 /\ logs' = logs /\ pc' = pc
       /\ \A j \in DOMAIN pc' :
             /\ TextLen(logs'[j].raw_text) >= MinTextLen
             /\ TextLen(logs'[j].raw_text) <= MaxTextLen]_vars

C9_Witness ==
    /\ started.code = 422
    /\ started.text.body = MinTextLen - 1
    /\ TextLen(started.text) = MinTextLen
    /\ \E j \in DOMAIN pc : pc[j] = "done"

\* the number of exercise items of the workouts ws[i..]
RECURSIVE ExerciseItems(_, _)
ExerciseItems(ws, i) ==
    IF i > Len(ws) THEN 0
    ELSE Len(ws[i].exercises) + ExerciseItems(ws, i + 1)

Counted(result) ==
    /\ result.high_confidence_count + result.medium_confidence_count
         + result.low_confidence_count + result.unmatched_count
       = result.total_exercises
    /\ result.total_exercises = ExerciseItems(result.parsed_plan.workouts, 1)

\* C10: in every stored result the four confidence counters add up to
\* total_exercises, which is the number of exercise items of the stored plan.
C10_CountersAddUp ==
    \A id \in DOMAIN logs :
        logs[id].result # None => Counted(logs[id].result[1])

C10_Witness ==
    \E id \in DOMAIN logs :
        /\ logs[id].result # None
        /\ logs[id].result[1].total_exercises = 2
        /\ logs[id].result[1].unmatched_count = 1
        /\ logs[id].result[1].high_confidence_count = 1

-----------------------------------------------------------------------------
(* Properties of the stored result against the draft and the configuration *)

\* the draft the LLM returned to job j (the job has a parsed reply)
DraftOf(j) == parse_workout_text(replied[j][1]).val

Completed(j) == j \in DOMAIN pc /\ logs[j].status = "completed"

StoredWorkouts(j) == logs[j].result[1].parsed_plan.workouts

\* the positions (w, k) of the exercise items of the stored plan of job j
ItemsOf(j) ==
    {<<w, k>> \in (1..MaxWorkouts + 1) \X (1..MaxExercises + 1) :
        /\ w <= Len(StoredWorkouts(j))
        /\ k <= Len(StoredWorkouts(j)[w].exercises)}

StoredItem(j, p) == StoredWorkouts(j)[p[1]].exercises[p[2]]

DraftItem(j, p) == DraftOf(j).workouts[p[1]].exercises[p[2]]

\* the tier of a confidence that cleared the floor, by the configured thresholds
ConfiguredLevel(confidence) ==
    IF confidence >= settings.exercise_match_high_threshold THEN "high"
    ELSE IF confidence >= settings.exercise_match_threshold THEN "medium"
    ELSE "low"

LevelAgrees(m) ==
    /\ m.confidence >= settings.exercise_match_low_threshold
    /\ m.confidence_level = ConfiguredLevel(m.confidence)

\* the number of stored items of job j matched at the given level
MatchedAt(j, level) ==
    Cardinality({p \in ItemsOf(j) :
        /\ StoredItem(j, p).matched_exercise # None
        /\ StoredItem(j, p).matched_exercise[1].confidence_level = level})

ClearedFloor(ex_data, exercise_map) ==
    /\ Get(ex_data, "exercise_id", None) \notin {None, Some("")}
    /\ ex_data.exercise_id[1] \in DOMAIN exercise_map
    /\ Get(ex_data, "confidence", Num(0)).v >= LowThreshold

-----------------------------------------------------------------------------
(* Properties of match_exercise *)

Floor == settings.exercise_match_low_threshold

RatioOf(ex) == matching.ratio[ex.name]

Rows == {matching.exercises[i] : i \in 1..Len(matching.exercises)}

\* the highest score of a row of a table that is not empty
TopScore == CHOOSE t \in {RatioOf(ex) : ex \in Rows} : \A ex \in Rows : RatioOf(ex) <= t

BestIsTop(r) ==
    /\ r.best # None <=> TopScore >= Floor
    /\ r.best # None =>
          /\ r.best[1] \in Rows
          /\ RatioOf(r.best[1]) = TopScore
          /\ r.score = TopScore

\* C19: match_exercise returns the top-scoring exercise as best exactly when
\* the top score is at or above the low threshold, otherwise best is None; on
\* an empty table it returns (None, 0.0, []).
C19_BestIffAtFloor ==
    matching.result # None =>
        IF matching.exercises = <<>>
        THEN matching.result[1] = NoMatch
        ELSE BestIsTop(matching.result[1])

C19_Witness ==
    /\ matching.result # None
    /\ Len(matching.exercises) >= 2
    /\ matching.result[1].best # None
    /\ matching.result[1].score = Floor
    /\ \E ex \in Rows : RatioOf(ex) < Floor

\* row x comes before row y: the higher score, the earlier row on equal scores
Before(x, y) ==
    \/ RatioOf(x) > RatioOf(y)
    \/ RatioOf(x) = RatioOf(y) /\ x.id < y.id

\* the rows other than best that clear the floor
Candidates(r) == {ex \in Rows : ex # r.best[1] /\ RatioOf(ex) >= Floor}

Listed(r) == {r.alternatives[i].exercise : i \in 1..Len(r.alternatives)}

NextBest(r) ==
    /\ Len(r.alternatives) <= matching.top_n - 1
    /\ Listed(r) \subseteq Candidates(r)
    /\ \A i \in 1..Len(r.alternatives) :
          /\ r.alternatives[i].score = RatioOf(r.alternatives[i].exercise)
          /\ \A k \in (i + 1)..Len(r.alternatives) :
                Before(r.alternatives[i].exercise, r.alternatives[k].exercise)
    /\ \A x \in Candidates(r) \ Listed(r) :
          /\ Len(r.alternatives) = matching.top_n - 1
          /\ \A y \in Listed(r) : Before(y, x)

\* C20: the alternatives of match_exercise are at most top_n - 1 exercises,
\* never best, each at or above the low threshold, by descending score with
\* ties in table order, and exactly the next-best candidates after best; they
\* are empty when best is None.
C20_Alternatives ==
    matching.result # None =>
        IF matching.result[1].best = None
        THEN matching.result[1].alternatives = <<>>
        ELSE NextBest(matching.result[1])

-----------------------------------------------------------------------------
(* Properties of the worker against the matcher, the job and the draft *)

\* the catalog of job j as a table, in the order of the ids
RECURSIVE TableOf(_)
TableOf(exercise_map) ==
    IF DOMAIN exercise_map = {} THEN <<>>
    ELSE LET id == CHOOSE x \in DOMAIN exercise_map :
                       \A y \in DOMAIN exercise_map : x = y \/ exercise_map[y].id # x
         IN  <<exercise_map[id]>>
                 \o TableOf([y \in DOMAIN exercise_map \ {id} |-> exercise_map[y]])

\* token_sort_ratio of equal texts is 100; other names are taken not to match
RatioWith(text, exercises) ==
    [name \in {exercises[i].name : i \in 1..Len(exercises)} |->
        IF name = text THEN RatioScale ELSE 0]

\* what the matcher returns for the text of a draft item on the catalog of j
MatcherOn(j, ex_data) ==
    MatchResult(TableOf(loc[j].exercises),
                RatioWith(ex_data.original_text[1], TableOf(loc[j].exercises)),
                DefaultTopN)

Resolved(item, r) ==
    IF r.best = None THEN item.matched_exercise = None
    ELSE /\ item.matched_exercise # None
         /\ item.matched_exercise[1].exercise_id = r.best[1].id

PcRank(label) ==
    CASE label = "scheduled" -> 0
      [] label = "processing" -> 1
      [] label = "awaiting_llm" -> 2
      [] label = "logged" -> 3
      [] label = "done" -> 4

CalledOnce(j) ==
    /\ PcRank(pc'[j]) >= PcRank(pc[j])
    /\ replied[j] # None => replied'[j] = replied[j] /\ pc'[j] # "awaiting_llm"
    /\ logs[j].status = "failed" => logs'[j].status = "failed" /\ pc'[j] = "done"

\* C16: the LLM is called at most once for a job: a task never goes back to a
\* position before the call, a reply once received is the only one, and a
\* failed job stays failed with its task ended.
C16_OneExtractionCall == [][\A j \in DOMAIN pc : CalledOnce(j)]_vars

C16_Witness ==
    \E j, k \in DOMAIN pc :
        /\ j < k
        /\ replied[j] = Some(Raised(Str("Request timed out")))
        /\ logs[j].status = "failed"
        /\ replied[k] # None
        /\ logs[k].status = "completed"

DraftPositions(d) ==
    {<<w, k>> \in (1..MaxWorkouts + 1) \X (1..MaxExercises + 1) :
        /\ w <= Len(Get(d, "workouts", <<>>))
        /\ k <= Len(Get(d.workouts[w], "exercises", <<>>))}

\* sets given as a count of at least 1 with one reps range
IsCounted(ex_data) ==
    /\ {"sets", "reps_min", "reps_max"} \subseteq DOMAIN ex_data
    /\ ~ex_data.sets.list
    /\ ex_data.sets.v >= 1

Expanded(ex_data) ==
    [i \in 1..ex_data.sets.v |->
        [set_number |-> i, reps_min |-> ex_data.reps_min,
         reps_max |-> ex_data.reps_max]]

CountExpands(j, d) ==
    \A p \in DraftPositions(d) :
        IsCounted(d.workouts[p[1]].exercises[p[2]]) =>
            /\ logs[j].status = "completed"
            /\ StoredItem(j, p).set_configurations
                   = Expanded(d.workouts[p[1]].exercises[p[2]])

HasRequired(d) ==
    /\ {"name", "workouts"} \subseteq DOMAIN d
    /\ \A w \in 1..Len(d.workouts) :
          /\ {"name", "order_index", "exercises"} \subseteq DOMAIN d.workouts[w]
          /\ \A k \in 1..Len(d.workouts[w].exercises) :
                {"original_text", "sequence", "sets"}
                    \subseteq DOMAIN d.workouts[w].exercises[k]

-----------------------------------------------------------------------------
(* Properties of the matcher with its scorer *)

\* the exercise of that name is best, with a score at or above high_threshold
ExactIsBest(exercise_text, r) ==
    /\ r.best # None
    /\ r.best[1].name = exercise_text
    /\ r.score >= settings.exercise_match_high_threshold

\* C21: for a text A that is the name of an exercise of the table, Match(A)
\* returns the exercise of that name as best with a score at or above
\* high_threshold, and the score of Match(B) for a text B one edit away from
\* A is not above the score of Match(A).
C21_ExactBeatsTypo ==
    matching.result # None =>
        IF matching.earlier = <<>>
        THEN ExactIsBest(matching.exercise_text, matching.result[1])
        ELSE matching.earlier[1].result.score >= matching.result[1].score

-----------------------------------------------------------------------------
(* Properties of the stored set configurations *)

SetsOf(j, p) == StoredItem(j, p).set_configurations

NoSetsGiven(ex_data) == Falsy(Get(ex_data, "sets", JList(<<>>)))

Numbered(cfgs) ==
    /\ Len(cfgs) >= 1
    /\ \A i \in 1..Len(cfgs) : cfgs[i].set_number = i

\* C23: every exercise item of the result of a completed job has at least one
\* SetConfig, numbered 1, 2, ..., n in list order; an item whose draft gives no
\* sets has the default sets.
C23_SetsNumbered ==
    \A j \in DOMAIN pc :
        Completed(j) =>
            \A p \in ItemsOf(j) :
                /\ Numbered(SetsOf(j, p))
                /\ NoSetsGiven(DraftItem(j, p)) =>
                      /\ Len(SetsOf(j, p)) = DefaultSetCount
                      /\ \A i \in 1..DefaultSetCount :
                            /\ SetsOf(j, p)[i].reps_min = DefaultRepsMin
                            /\ SetsOf(j, p)[i].reps_max = DefaultRepsMax

C23_Witness ==
    \E j \in DOMAIN pc :
        /\ Completed(j)
        /\ <<1, 1>> \in ItemsOf(j)
        /\ "sets" \in DOMAIN DraftItem(j, <<1, 1>>)
        /\ DraftItem(j, <<1, 1>>).sets = JList(<<>>)
        /\ Len(SetsOf(j, <<1, 1>>)) = DefaultSetCount

-----------------------------------------------------------------------------
(* Properties of the workout session endpoints *)

SessionStatusStep(id) ==
    \/ sessions'[id].status = sessions[id].status
    \/ /\ sessions[id].status = "in_progress"
       /\ sessions'[id].status \in {"completed", "abandoned"}

\* the request the step adds, if it adds one, is of one of the given endpoints
\* for a session of its user that is not in progress
OnEndedSession(ops) ==
    /\ Len(sreqs') > Len(sreqs)
    /\ sreqs'[Len(sreqs')].op \in ops
    /\ FindSession(sreqs'[Len(sreqs')].session_id, sreqs'[Len(sreqs')].user_id) # None
    /\ sessions[sreqs'[Len(sreqs')].session_id].status # "in_progress"

\* C24: the status of a workout session changes only from in_progress to
\* completed or from in_progress to abandoned; complete or skip on a session
\* that is not in progress is rejected and leaves the status unchanged.
C24_SessionTransitions ==
    [][/\ \A id \in DOMAIN sessions : SessionStatusStep(id)
       /\ \A id \in DOMAIN sessions' \ DOMAIN sessions :
             sessions'[id].status = "in_progress"
       /\ OnEndedSession({"complete", "skip"}) =>
             /\ sreqs'[Len(sreqs')].response = NotInProgress
             /\ sessions' = sessions]_vars

\* the rows of the exercise_session table that belong to the session
SetsOfSession(id) ==
    {i \in DOMAIN exercise_sessions : exercise_sessions[i].workout_session_id = id}

\* C25: sets are added to a session only while it is in progress: log_exercise
\* on a completed or abandoned session is rejected and adds no set, and no
\* step adds a set to a session that is completed or abandoned.
C25_SetsOnlyInProgress ==
    [][/\ \A id \in DOMAIN sessions :
             sessions[id].status # "in_progress" =>
                 SetsOfSession(id)' = SetsOfSession(id)
       /\ OnEndedSession({"log"}) =>
             /\ sreqs'[Len(sreqs')].response = CannotLog
             /\ exercise_sessions' = exercise_sessions]_vars

\* the plans of the user that are active and not deleted
ActivePlans(user_id) ==
    {p \in plans : p.user_id = user_id /\ p.deleted_at = None /\ p.is_active}

\* C26: after any interleaving of create, toggle-active, update and delete
\* requests every user has at most one plan that is active and not deleted.
C26_OneActivePlan == \A u \in Users : Cardinality(ActivePlans(u)) <= 1

-----------------------------------------------------------------------------
\* a step of the background task of job j
WorkerStep(j) == j \in DOMAIN pc /\ pc'[j] # pc[j]

\* the commit of a from-parsed request of the owner of job j
ConsumeStep(j) ==
    \E r \in DOMAIN reqs :
        /\ reqs[r].pc = "creating" /\ reqs'[r].pc = "done"
        /\ reqs[r].import_log_id = j
        /\ reqs[r].user_id = logs[j].user_id

\* C27: a job row is changed only by the background task of that job, which
\* leaves workout_plan_id and every other row alone, and by the commit of a
\* from-parsed request of its owner, which changes workout_plan_id only;
\* raw_text, user_id and created_at never change, and a step that answers a
\* status poll changes no row.
C27_JobFrame ==
    [][/\ \A j \in DOMAIN logs :
            /\ logs'[j].raw_text = logs[j].raw_text
            /\ logs'[j].user_id = logs[j].user_id
            /\ logs'[j].created_at = logs[j].created_at
            /\ logs'[j] # logs[j] =>
                  \/ /\ WorkerStep(j)
                     /\ logs'[j].workout_plan_id = logs[j].workout_plan_id
                     /\ \A b \in DOMAIN logs \ {j} : logs'[b] = logs[b]
                  \/ /\ ConsumeStep(j)
                     /\ logs'[j] = [logs[j] EXCEPT !.workout_plan_id =
                                                      logs'[j].workout_plan_id]
       /\ polled' # polled => logs' = logs]_vars

\* two jobs of one user: one completed by its task and linked by its owner,
\* the other still being worked on, and a status poll answered
C27_Witness ==
    \E a \in DOMAIN pc, b \in DOMAIN pc :
        /\ a # b
        /\ logs[a].status = "completed" /\ logs[a].workout_plan_id # None
        /\ logs[b].status = "processing"
        /\ polled.code = 200

-----------------------------------------------------------------------------
\* get_confidence_level was called with a score and returned
LevelGiven == matching.score # None

\* C28 as stated: the call returns high exactly for scores from the high
\* threshold, medium exactly for scores from the medium threshold below the
\* high one, low exactly for scores from the low threshold below the medium
\* one, and no level for a score below the low threshold.
C28_TiersAboveFloor ==
    LevelGiven =>
        LET score == matching.score[1]
        IN  /\ matching.level = Some("high") <=>
                  score >= settings.exercise_match_high_threshold
            /\ matching.level = Some("medium") <=>
                  /\ settings.exercise_match_threshold <= score
                  /\ score < settings.exercise_match_high_threshold
            /\ matching.level = Some("low") <=>
                  /\ settings.exercise_match_low_threshold <= score
                  /\ score < settings.exercise_match_threshold
            /\ score < settings.exercise_match_low_threshold =>
                  matching.level = None

\* C28, amended: the call returns high exactly for scores from the high
\* threshold, medium exactly for scores from the medium threshold below the
\* high one, and low for every other score, those below the low threshold
\* included: every score is given one of the three levels.
C28_ThreeTiers ==
    LevelGiven =>
        LET score == matching.score[1]
        IN  /\ matching.level \in {Some("high"), Some("medium"), Some("low")}
            /\ matching.level = Some("high") <=>
                  score >= settings.exercise_match_high_threshold
            /\ matching.level = Some("medium") <=>
                  /\ settings.exercise_match_threshold <= score
                  /\ score < settings.exercise_match_high_threshold

\* a call with a score below the low threshold returned low
C28_Witness ==
    /\ LevelGiven
    /\ matching.score[1] < settings.exercise_match_low_threshold
    /\ matching.level = Some("low")

-----------------------------------------------------------------------------
\* the responses of a from-parsed request that is rejected
Rejections == {NotFound, AlreadyLinked, ExerciseIdsNotFound}

\* C29: a from-parsed request that is rejected (import log not found, plan
\* already created from it, an exercise id that does not exist) adds no plan
\* and changes no import log, and afterwards every import log without a plan
\* still accepts a request of its owner with existing exercise ids.
C29_RejectedChangesNothing ==
    [][\A r \in DOMAIN reqs' \ DOMAIN reqs :
          reqs'[r].response \in Rejections =>
              /\ plans' = plans
              /\ logs' = logs
              /\ (\A j \in DOMAIN logs :
                     logs[j].workout_plan_id = None =>
                         LookupResponse(j, logs[j].user_id, {"e1"}) = NoResponse)']_vars

\* a request for an import log was rejected for an exercise id, and a later
\* request for the same import log created the plan and linked it
C29_Witness ==
    \E r \in DOMAIN reqs, q \in DOMAIN reqs :
        /\ r < q
        /\ reqs[r].response = ExerciseIdsNotFound
        /\ reqs[q].import_log_id = reqs[r].import_log_id
        /\ reqs[q].response.code = 201
        /\ logs[reqs[r].import_log_id].workout_plan_id = Some(reqs[q].response.id)

-----------------------------------------------------------------------------
\* C30: an import log has a workout plan only if its status is completed; no
\* from-parsed request links a plan to an import log that is pending,
\* processing or failed.
C30_LinkedOnlyCompleted ==
    \A j \in DOMAIN logs :
        logs[j].workout_plan_id # None => logs[j].status = "completed"

====
